---- MODULE Spec2Model ----
(***************************************************************************)
(* markdownlang: the document-to-program transform (mdastToProgram) and    *)
(* the execution engine (interpret / interpretAsync over a Runtime),       *)
(* modelled as a small-step state machine.  The host (JavaScript) call     *)
(* stack of executeFunction / executeBlock / trampoline activations is the *)
(* variable hostStack; the Runtime's fields keep their names.              *)
(***************************************************************************)
EXTENDS Integers, Sequences, FiniteSets, TLC

VARIABLES
    mode,                 \* "sync" = interpret, "async" = interpretAsync
    baseDir,              \* the baseDir argument of the run
    program,              \* the entry Program (with its _baseDir once interpret ran)
    entryPoint,           \* name of the entry function
    entryArgs,            \* args passed to interpret / interpretAsync
    inputs,               \* the values the caller supplies: the inputs array / the reader's answers
    inputReader,          \* async: TRUE when an inputReader callback was supplied
    handlerArg,           \* async: TRUE when a printHandler callback was supplied
    status,               \* "init", "running", "done", "error"
    error,                \* the thrown Error's message once status = "error"
    returned,             \* what interpret returned to its caller (NotReturned before / on throw)
    hostStack,            \* host activations: trampoline loops, executeFunction, executeBlock
    result,               \* value being returned between activations / the trampoline's `result`
    callStack,            \* Runtime.callStack
    output,               \* Runtime.output
    breakFlag,            \* Runtime.breakFlag
    inputBuffer,          \* Runtime.inputBuffer
    inputIndex,           \* Runtime.inputIndex
    printHandler,         \* Runtime.printHandler is set
    sink,                 \* the values the printHandler has received, in order
    awaiting,             \* async: an Input statement awaits the inputReader's promise
    readerCalls,          \* number of times the inputReader was invoked
    inputsExecuted,       \* history: number of Input statements executed so far
    externalProgramCache, \* module-level Map fullPath -> Program
    fileReads,            \* fullPaths handed to readFileSync, in order
    other,                \* the process's second run while it is not the one executing
    mdast,                \* transform: the document's top-level nodes
    pos,                  \* transform: index of the next node of mdast.children
    functions,            \* transform: program.functions being built
    currentFunction,      \* transform: name of the function being built, or NoFunction
    currentBlock          \* transform: path of the block statements are appended to, or NoBlock

vars == <<mode, baseDir, program, entryPoint, entryArgs, inputs, inputReader, handlerArg, status, error, returned,
          hostStack, result, callStack, output, breakFlag, inputBuffer, inputIndex,
          printHandler, sink, awaiting, readerCalls, inputsExecuted, externalProgramCache,
          fileReads, other,
          mdast, pos, functions, currentFunction, currentBlock>>

runVars == <<mode, baseDir, program, entryPoint, entryArgs, inputs, inputReader, handlerArg, status, error, returned,
             hostStack, result, callStack, output, breakFlag, inputBuffer, inputIndex,
             printHandler, sink, awaiting, readerCalls, inputsExecuted, externalProgramCache,
             fileReads, other>>

transformVars == <<mdast, pos, functions, currentFunction, currentBlock>>

(***************************************************************************)
(* Bounds of the model.                                                    *)
(***************************************************************************)
MaxOutput == 9      \* printed values per run
MaxDepth == 4       \* frames on Runtime.callStack
MaxReads == 5       \* inputReader invocations per run

(***************************************************************************)
(* Runtime values.  Strings are sequences of one-character strings.        *)
(***************************************************************************)
Num(n) == [t |-> "number", n |-> n, s |-> <<>>]
Str(s) == [t |-> "string", n |-> 0, s |-> s]
Bool(b) == [t |-> "boolean", n |-> IF b THEN 1 ELSE 0, s |-> <<>>]
Undefined == [t |-> "undefined", n |-> 0, s |-> <<>>]
Null == [t |-> "null", n |-> 0, s |-> <<>>]
NaN == [t |-> "NaN", n |-> 0, s |-> <<>>]
\* a thrown Error: its message is `kind` naming `name` (and `file` for an external call)
Err(kind, name, file) == [message |-> kind, name |-> name, file |-> file]
NoError == Err("", "", <<>>)
Throw(kind, name) == [t |-> "throw", error |-> Err(kind, name, <<>>)]
IsThrow(v) == v.t = "throw"

Digits == <<"0", "1", "2", "3", "4", "5", "6", "7", "8", "9">>
Alphabet == Digits \o <<"A", "B", "F", "H", "a", "b", "c", "d", "e", "f", "g", "h", "i",
                        "l", "n", "o", "r", "s", "t", "u", "x", "y", "z">>
CharCode(c) == IF \E k \in 1..Len(Alphabet) : Alphabet[k] = c
               THEN CHOOSE k \in 1..Len(Alphabet) : Alphabet[k] = c
               ELSE 0
IsDigit(c) == \E k \in 1..10 : Digits[k] = c

RECURSIVE NatToString(_)
NatToString(n) == IF n < 10 THEN <<Digits[n + 1]>>
                  ELSE NatToString(n \div 10) \o <<Digits[(n % 10) + 1]>>

RECURSIVE StringToNat(_)
StringToNat(s) == IF s = <<>> THEN 0
                  ELSE 10 * StringToNat(SubSeq(s, 1, Len(s) - 1)) + (CharCode(s[Len(s)]) - 1)

\* String(value): the conversion `+` and template concatenation apply
StringOf(v) ==
    CASE v.t = "string" -> v.s
      [] v.t = "number" -> IF v.n < 0 THEN <<"-">> \o NatToString(0 - v.n) ELSE NatToString(v.n)
      [] v.t = "boolean" -> IF v.n = 1 THEN <<"t", "r", "u", "e">> ELSE <<"f", "a", "l", "s", "e">>
      [] v.t = "undefined" -> <<"u", "n", "d", "e", "f", "i", "n", "e", "d">>
      [] v.t = "null" -> <<"n", "u", "l", "l">>
      [] OTHER -> <<"N", "a", "N">>

\* Number(value): the conversion the arithmetic and relational operators apply
ToNumber(v) ==
    CASE v.t = "number" -> v
      [] v.t = "boolean" -> Num(v.n)
      [] v.t = "null" -> Num(0)
      [] v.t = "string" -> IF \A k \in 1..Len(v.s) : IsDigit(v.s[k])
                           THEN Num(StringToNat(v.s)) ELSE NaN
      [] OTHER -> NaN

Truthy(v) ==
    CASE v.t = "number" -> v.n # 0
      [] v.t = "string" -> v.s # <<>>
      [] v.t = "boolean" -> v.n = 1
      [] OTHER -> FALSE

RECURSIVE StringLess(_, _)
StringLess(a, b) ==
    IF b = <<>> THEN FALSE
    ELSE IF a = <<>> THEN TRUE
    ELSE IF CharCode(Head(a)) # CharCode(Head(b)) THEN CharCode(Head(a)) < CharCode(Head(b))
    ELSE StringLess(Tail(a), Tail(b))

(***************************************************************************)
(* Expression AST, as the expression parser builds it.                     *)
(***************************************************************************)
Lit(v) == [type |-> "Literal", value |-> v]
Id(name) == [type |-> "Identifier", name |-> name]
Bin(op, l, r) == [type |-> "BinaryExpression", operator |-> op, left |-> l, right |-> r]
Un(op, a) == [type |-> "UnaryExpression", operator |-> op, argument |-> a]
Tpl(parts) == [type |-> "TemplateLiteral", parts |-> parts]
LitPart(s) == [type |-> "literal", value |-> s]
ExprPart(e) == [type |-> "expression", expr |-> e]
Member(o, p, computed) == [type |-> "MemberExpression", object |-> o, property |-> p,
                           computed |-> computed]
CallExpr(name) == [type |-> "CallExpression", callee |-> name]

(***************************************************************************)
(* Runtime: frames and variables.                                          *)
(***************************************************************************)
Frame(functionName, variables) == [functionName |-> functionName, variables |-> variables]
NoBindings == [x \in {} |-> Undefined]

\* Runtime.currentFrame is the last element of callStack; callers test for its absence
currentFrame(stack) == stack[Len(stack)]

\* a lookup that falls through to the frames below the top one (dynamic scoping)
getVariableAnyFrame(stack, name) ==
    IF stack # <<>> /\ \E k \in 1..Len(stack) : name \in DOMAIN stack[k].variables
    THEN LET k == CHOOSE j \in 1..Len(stack) :
                      /\ name \in DOMAIN stack[j].variables
                      /\ \A m \in (j + 1)..Len(stack) : name \notin DOMAIN stack[m].variables
         IN stack[k].variables[name]
    ELSE Undefined

getVariable(stack, name) ==
    IF stack # <<>> /\ name \in DOMAIN currentFrame(stack).variables
    THEN currentFrame(stack).variables[name]
    ELSE Undefined

Bind(variables, name, value) ==
    [x \in (DOMAIN variables) \cup {name} |-> IF x = name THEN value ELSE variables[x]]

\* a setVariable that writes to the bottom frame instead of the top one
setVariableBottom(stack, name, value) ==
    IF stack = <<>> THEN stack
    ELSE [stack EXCEPT ![1] = Frame(stack[1].functionName,
                                    Bind(stack[1].variables, name, value))]

setVariable(stack, name, value) ==
    IF stack = <<>> THEN stack
    ELSE [stack EXCEPT ![Len(stack)] =
              Frame(currentFrame(stack).functionName,
                    Bind(currentFrame(stack).variables, name, value))]

\* a pushFrame that pushes nothing
pushFrameNothing(stack, functionName, args) == stack

pushFrame(stack, functionName, args) == Append(stack, Frame(functionName, args))

\* a popFrame that leaves the frame on the stack
popFrameKeeps(stack) == stack

popFrame(stack) == IF stack = <<>> THEN stack ELSE SubSeq(stack, 1, Len(stack) - 1)

(***************************************************************************)
(* Expression evaluator.                                                   *)
(***************************************************************************)
Arith(op, l, r) ==
    LET a == ToNumber(l)
        b == ToNumber(r)
    IN IF a.t = "NaN" \/ b.t = "NaN" THEN NaN
       ELSE CASE op = "-" -> Num(a.n - b.n)
              [] op = "*" -> Num(a.n * b.n)
              \* the model's numbers are integers: a quotient exists when it is exact
              [] op = "/" -> IF b.n # 0 /\ a.n % (IF b.n < 0 THEN 0 - b.n ELSE b.n) = 0 /\ a.n >= 0 /\ b.n > 0
                             THEN Num(a.n \div b.n) ELSE NaN
              [] op = "%" -> IF b.n > 0 /\ a.n >= 0 THEN Num(a.n % b.n) ELSE NaN
              [] OTHER -> Num(a.n + b.n)

Plus(l, r) ==
    IF l.t = "string" \/ r.t = "string"
    THEN Str(StringOf(l) \o StringOf(r))
    ELSE Arith("+", l, r)

LessThan(l, r) ==
    IF l.t = "string" /\ r.t = "string" THEN StringLess(l.s, r.s)
    ELSE LET a == ToNumber(l)
             b == ToNumber(r)
         IN a.t # "NaN" /\ b.t # "NaN" /\ a.n < b.n

LessOrEqual(l, r) ==
    IF l.t = "string" /\ r.t = "string" THEN ~StringLess(r.s, l.s)
    ELSE LET a == ToNumber(l)
             b == ToNumber(r)
         IN a.t # "NaN" /\ b.t # "NaN" /\ a.n <= b.n

StrictEquals(l, r) == l.t # "NaN" /\ l = r

LooseEquals(l, r) ==
    IF l.t = r.t THEN StrictEquals(l, r)
    ELSE IF l.t \in {"null", "undefined"} \/ r.t \in {"null", "undefined"}
         THEN l.t \in {"null", "undefined"} /\ r.t \in {"null", "undefined"}
    ELSE LET a == ToNumber(l)
             b == ToNumber(r)
         IN a.t # "NaN" /\ b.t # "NaN" /\ a.n = b.n

applyBinary(op, l, r) ==
    CASE op = "+" -> Plus(l, r)
      [] op \in {"-", "*", "/", "%"} -> Arith(op, l, r)
      [] op = "==" -> Bool(LooseEquals(l, r))
      [] op = "!=" -> Bool(~LooseEquals(l, r))
      [] op = "<" -> Bool(LessThan(l, r))
      [] op = ">" -> Bool(LessThan(r, l))
      [] op = "<=" -> Bool(LessOrEqual(l, r))
      [] op = ">=" -> Bool(LessOrEqual(r, l))
      [] op = "===" -> Bool(StrictEquals(l, r))
      [] op = "!==" -> Bool(~StrictEquals(l, r))
      [] op = "&&" -> IF Truthy(l) THEN r ELSE l
      [] op = "||" -> IF Truthy(l) THEN l ELSE r
      [] OTHER -> Throw("Unknown operator", op)

applyUnary(op, a) ==
    CASE op = "!" -> Bool(~Truthy(a))
      [] op = "-" -> IF ToNumber(a).t = "NaN" THEN NaN ELSE Num(0 - ToNumber(a).n)
      [] op = "+" -> ToNumber(a)
      [] OTHER -> Throw("Unknown unary operator", op)

\* object[property] of the host: string index and length; a read on undefined or null throws
memberOf(object, property) ==
    CASE object.t \in {"undefined", "null"} -> Throw("Cannot read properties of undefined", "")
      [] object.t = "string" /\ property = Str(<<"l", "e", "n", "g", "t", "h">>) -> Num(Len(object.s))
      [] object.t = "string" /\ ToNumber(property).t = "number"
            /\ ToNumber(property).n \in 0..(Len(object.s) - 1)
            -> Str(<<object.s[ToNumber(property).n + 1]>>)
      [] OTHER -> Undefined

RECURSIVE evaluate(_, _)
RECURSIVE evaluateTemplateLiteral(_, _, _)

evaluateTemplateLiteral(parts, stack, acc) ==
    IF parts = <<>> THEN Str(acc)
    ELSE LET part == Head(parts)
         IN IF part.type = "literal"
            THEN evaluateTemplateLiteral(Tail(parts), stack, acc \o part.value)
            ELSE IF part.type = "expression"
            THEN LET v == evaluate(part.expr, stack)
                 IN IF IsThrow(v) THEN v
                    ELSE evaluateTemplateLiteral(Tail(parts), stack, acc \o StringOf(v))
            ELSE evaluateTemplateLiteral(Tail(parts), stack, acc)

evaluateBinaryExpression(node, stack) ==
    LET left == evaluate(node.left, stack)
    IN IF IsThrow(left) THEN left
       ELSE LET right == evaluate(node.right, stack)
            IN IF IsThrow(right) THEN right
               ELSE applyBinary(node.operator, left, right)

evaluateUnaryExpression(node, stack) ==
    LET argument == evaluate(node.argument, stack)
    IN IF IsThrow(argument) THEN argument ELSE applyUnary(node.operator, argument)

evaluateMemberExpression(node, stack) ==
    LET object == evaluate(node.object, stack)
    IN IF IsThrow(object) THEN object
       ELSE IF node.computed
       THEN LET property == evaluate(node.property, stack)
            IN IF IsThrow(property) THEN property ELSE memberOf(object, property)
       ELSE memberOf(object, Str(node.property))

evaluate(node, stack) ==
    CASE node.type = "Literal" -> node.value
      [] node.type = "Identifier" -> getVariable(stack, node.name)
      [] node.type = "BinaryExpression" -> evaluateBinaryExpression(node, stack)
      [] node.type = "UnaryExpression" -> evaluateUnaryExpression(node, stack)
      [] node.type = "TemplateLiteral" -> evaluateTemplateLiteral(node.parts, stack, <<>>)
      [] node.type = "MemberExpression" -> evaluateMemberExpression(node, stack)
      [] node.type = "CallExpression" -> Throw("Call expressions not supported", node.callee)
      [] OTHER -> Throw("Unknown expression type", node.type)

\* statement.arguments.map(arg => evaluate(arg, runtime)): the first throw aborts the map
RECURSIVE evaluateArguments(_, _, _)
evaluateArguments(arguments, stack, acc) ==
    IF arguments = <<>> THEN [thrown |-> FALSE, args |-> acc]
    ELSE LET v == evaluate(Head(arguments), stack)
         IN IF IsThrow(v) THEN [thrown |-> TRUE, value |-> v]
            ELSE evaluateArguments(Tail(arguments), stack, Append(acc, v))

(***************************************************************************)
(* Program AST: statements, function declarations, programs.               *)
(***************************************************************************)
NoOperator == "null"
NoFile == <<>>
PrintStatement(e) == [type |-> "PrintStatement", expression |-> e]
AssignmentStatement(v, op, e) == [type |-> "AssignmentStatement", variable |-> v, operator |-> op, value |-> e]
FunctionCallStatement(fn, file, args) ==
    [type |-> "FunctionCallStatement", functionName |-> fn,
     externalFile |-> file, arguments |-> args]
ConditionalBlock(c, body) == [type |-> "ConditionalBlock", condition |-> c, body |-> body]
BreakStatement == [type |-> "BreakStatement"]
InputStatement(v) == [type |-> "InputStatement", variable |-> v]
FunctionDeclaration(name, parameters, body) ==
    [type |-> "FunctionDeclaration", name |-> name,
                                 parameters |-> parameters, body |-> body]
Prog(fs) == [type |-> "Program", functions |-> fs, baseDir |-> <<>>]

(***************************************************************************)
(* Paths and the external-program cache.                                   *)
(***************************************************************************)
Cwd == <<"cwd">>

RECURSIVE normalize(_, _)
normalize(segments, acc) ==
    IF segments = <<>> THEN acc
    ELSE IF Head(segments) = ".."
         THEN normalize(Tail(segments), IF acc = <<>> THEN acc ELSE SubSeq(acc, 1, Len(acc) - 1))
         ELSE normalize(Tail(segments), Append(acc, Head(segments)))

\* path.resolve(baseDir, filePath) and path.dirname(fullPath), on relative filePaths
resolve(dir, filePath) == normalize(dir \o filePath, <<>>)
dirname(fullPath) == SubSeq(fullPath, 1, Len(fullPath) - 1)

\* the files on disk: fullPath -> the Program parse() builds from the file's markdown
LibProgram ==
    Prog([n \in {"h", "back", "far"} |->
            IF n = "h"
            THEN FunctionDeclaration("h", <<"v">>,
                     <<PrintStatement(Id("v")),
                       FunctionCallStatement("k", <<"util.md">>, <<Lit(Num(2))>>)>>)
            ELSE IF n = "far"
            THEN FunctionDeclaration("far", <<>>,
                     <<PrintStatement(Lit(Str(<<"f">>))),
                       FunctionCallStatement("up", <<"sub", "deep.md">>, <<>>)>>)
            ELSE FunctionDeclaration("back", <<>>, <<PrintStatement(Lit(Str(<<"b">>)))>>)])

\* app/lib/sub/deep.md: up calls a file of the directory above its own
DeepProgram ==
    Prog([n \in {"up"} |->
            FunctionDeclaration("up", <<>>,
                <<FunctionCallStatement("k", <<"..", "util.md">>, <<Lit(Num(3))>>)>>)])

UtilProgram ==
    Prog([n \in {"k"} |-> FunctionDeclaration("k", <<"w">>, <<PrintStatement(Id("w"))>>)])

FilePaths == {<<"app", "lib", "lib.md">>, <<"app", "lib", "util.md">>,
              <<"app", "lib", "sub", "deep.md">>}
Files == [path \in FilePaths |-> IF path = <<"app", "lib", "lib.md">> THEN LibProgram
                                 ELSE IF path = <<"app", "lib", "util.md">> THEN UtilProgram
                                 ELSE DeepProgram]

\* a loader that never consults the cache
loadExternalProgramUncached(filePath, dir, cache, reads) ==
    LET fullPath == resolve(dir, filePath)
    IN IF fullPath \notin FilePaths
       THEN [thrown |-> TRUE, error |-> Err("ENOENT", "", fullPath),
             cache |-> cache, reads |-> Append(reads, fullPath)]
       ELSE LET loaded == [Files[fullPath] EXCEPT !.baseDir = dirname(fullPath)]
            IN [thrown |-> FALSE, program |-> loaded, fullPath |-> fullPath,
                cache |-> [q \in (DOMAIN cache) \cup {fullPath} |->
                              IF q = fullPath THEN loaded ELSE cache[q]],
                reads |-> Append(reads, fullPath)]

loadExternalProgram(filePath, dir, cache, reads) ==
    LET fullPath == resolve(dir, filePath)
    IN IF fullPath \in DOMAIN cache
       THEN [thrown |-> FALSE, program |-> cache[fullPath], fullPath |-> fullPath,
             cache |-> cache, reads |-> reads]
       ELSE IF fullPath \notin FilePaths
       THEN [thrown |-> TRUE, error |-> Err("ENOENT", "", fullPath),
             cache |-> cache, reads |-> Append(reads, fullPath)]
       ELSE LET loaded == [Files[fullPath] EXCEPT !.baseDir = dirname(fullPath)]
            IN [thrown |-> FALSE, program |-> loaded, fullPath |-> fullPath,
                cache |-> [q \in (DOMAIN cache) \cup {fullPath} |->
                              IF q = fullPath THEN loaded ELSE cache[q]],
                reads |-> Append(reads, fullPath)]

(***************************************************************************)
(* Runtime: input, output, break flag.                                     *)
(***************************************************************************)
\* setInput keeps the array it is given (the model's inputs are always arrays)
setInput(values) == values

\* a read that forgets to advance the read position
readInputNoAdvance(buffer, index) ==
    IF index < Len(buffer) THEN [value |-> buffer[index + 1], index |-> index]
    ELSE [value |-> Null, index |-> index]

\* readInput: the value read and the read position afterwards
readInput(buffer, index) ==
    IF index < Len(buffer) THEN [value |-> buffer[index + 1], index |-> index + 1]
    ELSE [value |-> Null, index |-> index]

\* print: output.push(value), then printHandler(value) when a handler is set
printToOutput(out, value) == Append(out, value)

\* a handler that is called twice per printed value
printToHandlerTwice(handler, delivered, value) ==
    IF handler THEN delivered \o <<value, value>> ELSE delivered

printToHandler(handler, delivered, value) ==
    IF handler THEN Append(delivered, value) ELSE delivered

setBreak == TRUE

(***************************************************************************)
(* Engine: results travelling between activations, and the host stack.     *)
(***************************************************************************)
\* A Program is an object: activations and thunks hold a reference to it, the entry
\* program or the cache's entry for a fullPath, and see the object's current fields.
EntryProgram == <<"<entry>">>
Deref(ref) == IF ref = EntryProgram THEN program ELSE externalProgramCache[ref]

NoResult == [type |-> "none"]
NullResult == [type |-> "null"]
TailCall(prog, func, args) == [type |-> "TAIL_CALL", program |-> prog, func |-> func,
                               args |-> args]
\* a result tagged ASYNC_INPUT: the Input statement to run and what continuation() returns
AsyncInput(statement, continuation) == [type |-> "ASYNC_INPUT", statement |-> statement,
                                        continuation |-> continuation]
NotReturned == [done |-> FALSE, value |-> <<>>]
Returned(out) == [done |-> TRUE, value |-> out]

InterpretLoop == [k |-> "interpret"]
\* frames is history: Runtime.callStack as it was when the call statement started
InlineLoop(frames) == [k |-> "executeFunctionCall", frames |-> frames]
FunctionActivation == [k |-> "executeFunction"]
BlockActivation(prog, statements, i) == [k |-> "executeBlock", program |-> prog,
                                         statements |-> statements, i |-> i]

Top == hostStack[Len(hostStack)]
Popped == SubSeq(hostStack, 1, Len(hostStack) - 1)
Advanced == [hostStack EXCEPT ![Len(hostStack)].i = @ + 1]

\* executeBlock is about to run statements[i]: loop test passed, break flag clear
AtStatement ==
    /\ status = "running"
    /\ hostStack # <<>>
    /\ Top.k = "executeBlock"
    /\ result = NoResult
    /\ ~awaiting
    /\ Top.i <= Len(Top.statements)
    /\ ~breakFlag

Statement == Top.statements[Top.i]
AtStatementOfType(type) == AtStatement /\ Statement.type = type

\* a call that is never treated as a tail call
isLastNever(i, statements) == FALSE

\* const isLast = i === statements.length - 1
isLast(i, statements) == i = Len(statements)

\* argBindings[func.parameters[i]] = args[i], for i over the parameters
LastIndexOf(parameters, name) ==
    CHOOSE i \in 1..Len(parameters) :
        /\ parameters[i] = name
        /\ \A j \in (i + 1)..Len(parameters) : parameters[j] # name

argBindings(parameters, args) ==
    [name \in {parameters[i] : i \in 1..Len(parameters)} |->
        IF LastIndexOf(parameters, name) <= Len(args)
        THEN args[LastIndexOf(parameters, name)] ELSE Undefined]

\* no default: an unbound variable enters the compound operation as undefined
getDefaultValueUndefined(value) == Undefined

getDefaultValue(value) ==
    CASE value.t = "string" -> Str(<<>>)
      [] value.t \in {"number", "NaN"} -> Num(0)
      [] OTHER -> Undefined

compoundResult(operator, currentValue, newValue) ==
    CASE operator = "+" -> Plus(currentValue, newValue)
      [] operator \in {"-", "*", "/"} -> Arith(operator, currentValue, newValue)
      [] OTHER -> Throw("Unknown compound operator", operator)

\* runtime.getVariable(name) ?? getDefaultValue(newValue)
currentOrDefault(stack, name, newValue) ==
    IF getVariable(stack, name).t \in {"undefined", "null"}
    THEN getDefaultValue(newValue)
    ELSE getVariable(stack, name)

(***************************************************************************)
(* Variables grouped by who writes them.                                   *)
(***************************************************************************)
callVars == <<mode, baseDir, entryPoint, entryArgs, inputs, inputReader, handlerArg, other>>
loaderVars == <<externalProgramCache, fileReads>>
ioVars == <<output, sink, inputIndex, awaiting, readerCalls, inputsExecuted>>

\* a throw unwinds every host activation; interpret's caller gets the Error, not the output
Fail(e) ==
    /\ status' = "error"
    /\ error' = e
    /\ hostStack' = <<>>
    /\ result' = NoResult

(***************************************************************************)
(* interpret / interpretAsync: set up the Runtime, find the entry          *)
(* function, start the trampoline.                                         *)
(***************************************************************************)
\* an interpret that pushes the entry frame before it looks the entry function up
InterpretLateLookup ==
    /\ status = "init"
    /\ mode = "sync"
    /\ inputBuffer' = setInput(inputs)
    /\ inputIndex' = 0
    /\ program' = [program EXCEPT !.baseDir = baseDir]
    /\ IF entryPoint \notin DOMAIN program.functions
       THEN /\ Fail(Err("Entry function not found", entryPoint, <<>>))
            /\ callStack' = pushFrame(callStack, entryPoint, NoBindings)
       ELSE /\ status' = "running"
            /\ error' = error
            /\ hostStack' = <<InterpretLoop>>
            /\ result' = TailCall(EntryProgram, program.functions[entryPoint], entryArgs)
            /\ callStack' = callStack
    /\ UNCHANGED <<callVars, loaderVars, transformVars, returned, output,
                   breakFlag, printHandler, sink, awaiting, readerCalls, inputsExecuted>>

Interpret ==
    /\ status = "init"
    /\ mode = "sync"
    /\ inputBuffer' = setInput(inputs)
    /\ inputIndex' = 0
    /\ program' = [program EXCEPT !.baseDir = baseDir]
    /\ IF entryPoint \notin DOMAIN program.functions
       THEN Fail(Err("Entry function not found", entryPoint, <<>>))
       ELSE /\ status' = "running"
            /\ error' = error
            /\ hostStack' = <<InterpretLoop>>
            /\ result' = TailCall(EntryProgram, program.functions[entryPoint], entryArgs)
    /\ UNCHANGED <<callVars, loaderVars, transformVars, returned, callStack, output,
                   breakFlag, printHandler, sink, awaiting, readerCalls, inputsExecuted>>

InterpretAsync ==
    /\ status = "init"
    /\ mode = "async"
    /\ printHandler' = handlerArg
    /\ program' = [program EXCEPT !.baseDir = baseDir]
    /\ IF entryPoint \notin DOMAIN program.functions
       THEN Fail(Err("Entry function not found", entryPoint, <<>>))
       ELSE /\ status' = "running"
            /\ error' = error
            /\ hostStack' = <<InterpretLoop>>
            /\ result' = TailCall(EntryProgram, program.functions[entryPoint], entryArgs)
    /\ UNCHANGED <<callVars, loaderVars, transformVars, returned, callStack, output,
                   breakFlag, inputBuffer, inputIndex, sink, awaiting, readerCalls,
                   inputsExecuted>>

\* the trampoline's loop ends on a null result: return runtime.getOutput()
InterpretReturn ==
    /\ status = "running"
    /\ hostStack # <<>>
    /\ Top = InterpretLoop
    /\ result = NullResult
    /\ status' = "done"
    /\ returned' = Returned(output)
    /\ hostStack' = <<>>
    /\ result' = NoResult
    /\ UNCHANGED <<callVars, loaderVars, transformVars, ioVars, program, error, callStack,
                   breakFlag, inputBuffer, printHandler>>

(***************************************************************************)
(* executeFunction: one iteration of a trampoline loop.  The loop of       *)
(* interpretAsync has a second branch, for a result tagged ASYNC_INPUT: it *)
(* runs executeInputAsync on the result's statement and goes on with what  *)
(* the result's continuation returns.                                      *)
(***************************************************************************)
ExecuteFunction ==
    /\ status = "running"
    /\ hostStack # <<>>
    /\ Top.k \in {"interpret", "executeFunctionCall"}
    /\ IF mode = "async" /\ Top.k = "interpret" /\ result.type = "ASYNC_INPUT"
       THEN /\ ~awaiting
            /\ IF inputReader
               THEN /\ readerCalls < MaxReads
                    /\ awaiting' = TRUE
                    /\ readerCalls' = readerCalls + 1
                    /\ UNCHANGED <<inputIndex, callStack, result>>
               ELSE /\ LET read == readInput(inputBuffer, inputIndex)
                       IN /\ inputIndex' = read.index
                          /\ callStack' = setVariable(callStack, result.statement.variable,
                                                      read.value)
                    /\ result' = result.continuation
                    /\ UNCHANGED <<awaiting, readerCalls>>
            /\ inputsExecuted' = inputsExecuted + 1
            /\ UNCHANGED <<hostStack, output, sink>>
       ELSE /\ result.type = "TAIL_CALL"
            /\ Len(callStack) < MaxDepth
            /\ callStack' = pushFrame(callStack, result.func.name,
                                      argBindings(result.func.parameters, result.args))
            /\ hostStack' = hostStack \o <<FunctionActivation,
                                           BlockActivation(result.program, result.func.body, 1)>>
            /\ result' = NoResult
            /\ UNCHANGED ioVars
    /\ UNCHANGED <<callVars, loaderVars, transformVars, program, status, error,
                   returned, breakFlag, inputBuffer, printHandler>>

\* executeBlock returned: popFrame, hand the block's result to the trampoline
ExecuteFunctionReturn ==
    /\ status = "running"
    /\ hostStack # <<>>
    /\ Top = FunctionActivation
    /\ result # NoResult
    /\ callStack' = popFrame(callStack)
    /\ hostStack' = Popped
    /\ UNCHANGED <<callVars, loaderVars, transformVars, ioVars, program, status, error,
                   returned, result, breakFlag, inputBuffer, printHandler>>

\* the inline trampoline of a non-tail call ran dry: executeFunctionCall returns null
FunctionCallReturn ==
    /\ status = "running"
    /\ hostStack # <<>>
    /\ Top.k = "executeFunctionCall"
    /\ result = NullResult
    /\ hostStack' = Popped
    /\ UNCHANGED <<callVars, loaderVars, transformVars, ioVars, program, status, error,
                   returned, result, callStack, breakFlag, inputBuffer, printHandler>>

(***************************************************************************)
(* executeBlock: the loop over a block's statements.                       *)
(***************************************************************************)
\* a loop test that consumes the flag, as Runtime.shouldBreak does
BlockExitShouldBreak ==
    /\ status = "running"
    /\ hostStack # <<>>
    /\ Top.k = "executeBlock"
    /\ result = NoResult
    /\ ~awaiting
    /\ (Top.i > Len(Top.statements) \/ breakFlag)
    /\ hostStack' = Popped
    /\ result' = NullResult
    /\ breakFlag' = FALSE
    /\ UNCHANGED <<callVars, loaderVars, transformVars, ioVars, program, status, error,
                   returned, callStack, inputBuffer, printHandler>>

\* the loop ends (i past the last statement, or the break flag is set): return null
BlockExit ==
    /\ status = "running"
    /\ hostStack # <<>>
    /\ Top.k = "executeBlock"
    /\ result = NoResult
    /\ ~awaiting
    /\ (Top.i > Len(Top.statements) \/ breakFlag)
    /\ hostStack' = Popped
    /\ result' = NullResult
    /\ UNCHANGED <<callVars, loaderVars, transformVars, ioVars, program, status, error,
                   returned, callStack, breakFlag, inputBuffer, printHandler>>

\* a nested statement (conditional body, inline call) returned to the loop:
\* a tail call is returned immediately, anything else moves on to the next statement
BlockResume ==
    /\ status = "running"
    /\ hostStack # <<>>
    /\ Top.k = "executeBlock"
    /\ result # NoResult
    /\ IF result.type = "TAIL_CALL"
       THEN hostStack' = Popped /\ result' = result
       ELSE hostStack' = Advanced /\ result' = NoResult
    /\ UNCHANGED <<callVars, loaderVars, transformVars, ioVars, program, status, error,
                   returned, callStack, breakFlag, inputBuffer, printHandler>>

(***************************************************************************)
(* executeStatement, one action per statement type.                        *)
(***************************************************************************)
ExecutePrint ==
    /\ AtStatementOfType("PrintStatement")
    /\ Len(output) < MaxOutput
    /\ LET value == evaluate(Statement.expression, callStack)
       IN IF IsThrow(value)
          THEN Fail(value.error) /\ UNCHANGED <<output, sink>>
          ELSE /\ output' = printToOutput(output, value)
               /\ sink' = printToHandler(printHandler, sink, value)
               /\ hostStack' = Advanced
               /\ UNCHANGED <<status, error, result>>
    /\ UNCHANGED <<callVars, loaderVars, transformVars, program, returned, callStack,
                   breakFlag, inputBuffer, inputIndex, printHandler, awaiting, readerCalls,
                   inputsExecuted>>

ExecuteAssignment ==
    /\ AtStatementOfType("AssignmentStatement")
    /\ LET newValue == evaluate(Statement.value, callStack)
           value == IF Statement.operator = NoOperator \/ IsThrow(newValue)
                    THEN newValue
                    ELSE compoundResult(Statement.operator,
                                        currentOrDefault(callStack, Statement.variable, newValue),
                                        newValue)
       IN IF IsThrow(value)
          THEN Fail(value.error) /\ UNCHANGED callStack
          ELSE /\ callStack' = setVariable(callStack, Statement.variable, value)
               /\ hostStack' = Advanced
               /\ UNCHANGED <<status, error, result>>
    /\ UNCHANGED <<callVars, loaderVars, transformVars, ioVars, program, returned,
                   breakFlag, inputBuffer, printHandler>>

ExecuteBreak ==
    /\ AtStatementOfType("BreakStatement")
    /\ breakFlag' = setBreak
    /\ hostStack' = Advanced
    /\ UNCHANGED <<callVars, loaderVars, transformVars, ioVars, program, status, error,
                   returned, result, callStack, inputBuffer, printHandler>>

\* executeInput, and executeInputAsync when no inputReader is set (readInputAsync
\* then falls back to readInput)
ExecuteInput ==
    /\ AtStatementOfType("InputStatement")
    /\ mode = "sync" \/ ~inputReader
    /\ LET read == readInput(inputBuffer, inputIndex)
       IN /\ inputIndex' = read.index
          /\ callStack' = setVariable(callStack, Statement.variable, read.value)
    /\ inputsExecuted' = inputsExecuted + 1
    /\ hostStack' = Advanced
    /\ UNCHANGED <<callVars, loaderVars, transformVars, program, status, error, returned,
                   result, output, sink, awaiting, readerCalls, breakFlag, inputBuffer,
                   printHandler>>

\* an executeInputAsync that does not await the inputReader's promise
ExecuteInputAsyncNoAwait ==
    /\ AtStatementOfType("InputStatement")
    /\ mode = "async" /\ inputReader
    /\ readerCalls < MaxReads
    /\ readerCalls' = readerCalls + 1
    /\ inputsExecuted' = inputsExecuted + 1
    /\ callStack' = setVariable(callStack, Statement.variable, Undefined)
    /\ hostStack' = Advanced
    /\ UNCHANGED <<callVars, loaderVars, transformVars, program, status, error, returned,
                   result, output, sink, inputIndex, breakFlag, awaiting,
                   inputBuffer, printHandler>>

\* an executeStatementAsync that hands the Input statement to the top-level loop,
\* tagged ASYNC_INPUT, instead of awaiting it
ExecuteInputAsyncDeferred ==
    /\ AtStatementOfType("InputStatement")
    /\ mode = "async" /\ inputReader
    /\ readerCalls < MaxReads
    /\ result' = AsyncInput(Statement, NullResult)
    /\ UNCHANGED <<callVars, loaderVars, transformVars, ioVars, program, status, error,
                   returned, hostStack, callStack, breakFlag, inputBuffer, printHandler>>

\* executeInputAsync with an inputReader: the reader is invoked, the step awaits its promise
ExecuteInputAsync ==
    /\ AtStatementOfType("InputStatement")
    /\ mode = "async" /\ inputReader
    /\ readerCalls < MaxReads
    /\ awaiting' = TRUE
    /\ readerCalls' = readerCalls + 1
    /\ inputsExecuted' = inputsExecuted + 1
    /\ UNCHANGED <<callVars, loaderVars, transformVars, program, status, error, returned,
                   hostStack, result, callStack, output, sink, inputIndex, breakFlag,
                   inputBuffer, printHandler>>

\* the k-th promise resolves with the k-th supplied value (null once they are used up)
readerValue(k) == IF k <= Len(inputs) THEN inputs[k] ELSE Null

\* a resumption that drops the delivered value
InputReaderResolveNoBind ==
    /\ status = "running"
    /\ awaiting
    /\ awaiting' = FALSE
    /\ hostStack' = Advanced
    /\ UNCHANGED <<callVars, loaderVars, transformVars, program, status, error, returned,
                   result, callStack, output, sink, inputIndex, readerCalls, inputsExecuted,
                   breakFlag, inputBuffer, printHandler>>

\* the awaited promise resolves: setVariable, then the statement returns null to its
\* block, or (awaited by the loop of interpretAsync) the continuation is called
InputReaderResolve ==
    /\ status = "running"
    /\ awaiting
    /\ awaiting' = FALSE
    /\ IF Top.k = "interpret"
       THEN /\ callStack' = setVariable(callStack, result.statement.variable,
                                        readerValue(readerCalls))
            /\ result' = result.continuation
            /\ hostStack' = hostStack
       ELSE /\ callStack' = setVariable(callStack, Statement.variable,
                                        readerValue(readerCalls))
            /\ result' = result
            /\ hostStack' = Advanced
    /\ UNCHANGED <<callVars, loaderVars, transformVars, program, status, error, returned,
                   output, sink, inputIndex, readerCalls, inputsExecuted, breakFlag,
                   inputBuffer, printHandler>>

\* an executeFunctionCall that evaluates the arguments before it looks the function up
callOutcomeArgumentsFirst(missing, missingError, evaluated) ==
    IF evaluated.thrown THEN [thrown |-> TRUE, error |-> evaluated.value.error]
    ELSE IF missing THEN [thrown |-> TRUE, error |-> missingError]
    ELSE [thrown |-> FALSE, args |-> evaluated.args]

\* the order inside executeFunctionCall: the lookup's throw comes before the arguments'
callOutcome(missing, missingError, evaluated) ==
    IF missing THEN [thrown |-> TRUE, error |-> missingError]
    ELSE IF evaluated.thrown THEN [thrown |-> TRUE, error |-> evaluated.value.error]
    ELSE [thrown |-> FALSE, args |-> evaluated.args]

\* a call that resolves every external file against the entry program's directory
referencingDirOfEntry(ref) == IF program.baseDir # <<>> THEN program.baseDir ELSE Cwd

\* program._baseDir || process.cwd(), of the program executeFunctionCall was given
referencingDir(ref) == IF Deref(ref).baseDir # <<>> THEN Deref(ref).baseDir ELSE Cwd

\* executeFunctionCall: find the function (loading the external program first), evaluate
\* the arguments, then return the thunk (tail call) or run it in an inline trampoline
ExecuteFunctionCall ==
    /\ AtStatementOfType("FunctionCallStatement")
    /\ LET external == Statement.externalFile # NoFile
           dir == referencingDir(Top.program)
           loaded == loadExternalProgram(Statement.externalFile, dir,
                                         externalProgramCache, fileReads)
           targetProgram == IF external THEN loaded.program ELSE Deref(Top.program)
           target == IF external THEN loaded.fullPath ELSE Top.program
           missing == Statement.functionName \notin DOMAIN targetProgram.functions
           outcome == callOutcome(missing,
                                  Err(IF external THEN "Function not found in"
                                      ELSE "Function not found",
                                      Statement.functionName, Statement.externalFile),
                                  evaluateArguments(Statement.arguments, callStack, <<>>))
       IN /\ externalProgramCache' = IF external THEN loaded.cache ELSE externalProgramCache
          /\ fileReads' = IF external THEN loaded.reads ELSE fileReads
          /\ IF external /\ loaded.thrown
             THEN Fail(loaded.error)
             ELSE IF outcome.thrown
             THEN Fail(outcome.error)
             ELSE /\ result' = TailCall(target,
                                        targetProgram.functions[Statement.functionName],
                                        outcome.args)
                  /\ hostStack' = IF isLast(Top.i, Top.statements)
                                  THEN Popped
                                  ELSE Append(hostStack, InlineLoop(callStack))
                  /\ UNCHANGED <<status, error>>
    /\ UNCHANGED <<callVars, transformVars, ioVars, program, returned, callStack,
                   breakFlag, inputBuffer, printHandler>>

\* executeConditional: run the body when the guard is truthy; isLast is not consulted
ExecuteConditional ==
    /\ AtStatementOfType("ConditionalBlock")
    /\ LET condition == evaluate(Statement.condition, callStack)
       IN IF IsThrow(condition)
          THEN Fail(condition.error)
          ELSE /\ hostStack' = IF Truthy(condition)
                               THEN Append(hostStack,
                                           BlockActivation(Top.program, Statement.body, 1))
                               ELSE Advanced
               /\ UNCHANGED <<status, error, result>>
    /\ UNCHANGED <<callVars, loaderVars, transformVars, ioVars, program, returned,
                   callStack, breakFlag, inputBuffer, printHandler>>

StatementTypes == {"PrintStatement", "AssignmentStatement", "FunctionCallStatement",
                   "ConditionalBlock", "BreakStatement", "InputStatement"}

\* default: throw new Error(`Unknown statement type: ...`)
ExecuteUnknownStatement ==
    /\ AtStatement
    /\ Statement.type \notin StatementTypes
    /\ Fail(Err("Unknown statement type", Statement.type, <<>>))
    /\ UNCHANGED <<callVars, loaderVars, transformVars, ioVars, program, returned,
                   callStack, breakFlag, inputBuffer, printHandler>>

(***************************************************************************)
(* The programs and calls the model runs.                                  *)
(***************************************************************************)
TextLit(c) == Lit(Str(<<c>>))
LocalCall(fn, args) == FunctionCallStatement(fn, NoFile, args)
Functions(decls) == [n \in {decls[i].name : i \in 1..Len(decls)} |->
                        decls[CHOOSE i \in 1..Len(decls) :
                                 /\ decls[i].name = n
                                 /\ \A j \in (i + 1)..Len(decls) : decls[j].name # n]]

\* count = 0 / ## *count < 5* / **{count}** / count += 1 / [](#main)
CountingProgram ==
    Prog(Functions(<<
        FunctionDeclaration("main", <<>>,
            <<AssignmentStatement("count", NoOperator, Lit(Num(0))),
              ConditionalBlock(Bin("<", Id("count"), Lit(Num(5))),
                  <<PrintStatement(Id("count")),
                    AssignmentStatement("count", "+", Lit(Num(1))),
                    LocalCall("main", <<>>)>>)>>),
        FunctionDeclaration("loop", <<"n">>,
            <<ConditionalBlock(Bin("<", Id("n"), Lit(Num(3))),
                  <<PrintStatement(Id("n")),
                    LocalCall("loop", <<Bin("+", Id("n"), Lit(Num(1)))>>)>>)>>),
        FunctionDeclaration("deep", <<"n">>,
            <<ConditionalBlock(Bin("<", Id("n"), Lit(Num(6))),
                  <<LocalCall("deep", <<Bin("+", Id("n"), Lit(Num(1)))>>),
                    PrintStatement(Id("n"))>>)>>)>>))

TailProgram ==
    Prog(Functions(<<
        FunctionDeclaration("main", <<>>,
            <<ConditionalBlock(Lit(Num(1)), <<PrintStatement(TextLit("a")), LocalCall("f", <<>>)>>),
              PrintStatement(TextLit("c"))>>),
        FunctionDeclaration("siblings", <<>>,
            <<ConditionalBlock(Lit(Num(1)), <<PrintStatement(TextLit("a")), LocalCall("f", <<>>)>>),
              ConditionalBlock(Lit(Num(1)), <<PrintStatement(TextLit("c"))>>)>>),
        FunctionDeclaration("tail", <<>>,
            <<PrintStatement(TextLit("a")),
              ConditionalBlock(Lit(Num(1)), <<LocalCall("f", <<>>)>>)>>),
        FunctionDeclaration("inline", <<>>,
            <<LocalCall("f", <<>>), PrintStatement(TextLit("c"))>>),
        FunctionDeclaration("mid", <<>>,
            <<ConditionalBlock(Lit(Num(1)), <<LocalCall("f", <<>>), PrintStatement(TextLit("d"))>>),
              PrintStatement(TextLit("c"))>>),
        FunctionDeclaration("nested", <<>>,
            <<ConditionalBlock(Lit(Num(1)),
                  <<ConditionalBlock(Lit(Num(1)), <<LocalCall("f", <<>>)>>),
                    PrintStatement(TextLit("d"))>>)>>),
        FunctionDeclaration("f", <<>>, <<PrintStatement(TextLit("b"))>>)>>))

ScopeProgram ==
    Prog(Functions(<<
        FunctionDeclaration("main", <<"a", "b">>,
            <<AssignmentStatement("t", NoOperator, Lit(Num(7))),
              LocalCall("f", <<Id("a"), Id("t"), Lit(Num(9))>>),
              PrintStatement(Id("t")),
              PrintStatement(Id("b")),
              LocalCall("g", <<>>)>>),
        FunctionDeclaration("f", <<"x", "y">>,
            <<PrintStatement(Id("x")),
              PrintStatement(Id("a")),
              AssignmentStatement("t", NoOperator, Lit(Num(1))),
              AssignmentStatement("a", "+", Id("y")),
              PrintStatement(Id("a")),
              LocalCall("g", <<Id("t")>>)>>),
        FunctionDeclaration("g", <<"p", "p">>,
            <<PrintStatement(Id("p")),
              PrintStatement(Id("t"))>>),
        FunctionDeclaration("twice", <<"p", "p">>,
            <<PrintStatement(Id("p"))>>)>>))

BreakProgram ==
    Prog(Functions(<<
        FunctionDeclaration("main", <<>>,
            <<PrintStatement(TextLit("a")),
              LocalCall("g", <<>>),
              PrintStatement(TextLit("x")),
              LocalCall("g", <<>>)>>),
        FunctionDeclaration("g", <<>>,
            <<PrintStatement(TextLit("i")),
              ConditionalBlock(Lit(Num(1)), <<BreakStatement>>),
              PrintStatement(TextLit("y"))>>),
        FunctionDeclaration("loop", <<"n">>,
            <<ConditionalBlock(Bin(">=", Id("n"), Lit(Num(2))), <<BreakStatement>>),
              PrintStatement(Id("n")),
              LocalCall("loop", <<Bin("+", Id("n"), Lit(Num(1)))>>)>>),
        FunctionDeclaration("reads", <<>>,
            <<InputStatement("x"),
              ConditionalBlock(Bin("==", Id("x"), TextLit("b")), <<BreakStatement>>),
              PrintStatement(Id("x")),
              LocalCall("reads", <<>>)>>)>>))

LookupProgram ==
    Prog(Functions(<<
        FunctionDeclaration("undeclared", <<>>,
            <<PrintStatement(TextLit("a")),
              ConditionalBlock(Lit(Num(0)), <<LocalCall("missing", <<>>)>>),
              LocalCall("missing", <<CallExpr("x")>>)>>),
        FunctionDeclaration("guarded", <<>>,
            <<ConditionalBlock(Lit(Num(0)), <<LocalCall("missing", <<>>)>>),
              PrintStatement(TextLit("a"))>>),
        FunctionDeclaration("broken", <<>>,
            <<PrintStatement(TextLit("a")),
              ConditionalBlock(Lit(Num(1)), <<BreakStatement>>),
              LocalCall("missing", <<>>)>>),
        FunctionDeclaration("badarg", <<>>,
            <<PrintStatement(TextLit("a")),
              LocalCall("guarded", <<CallExpr("x")>>),
              PrintStatement(TextLit("b"))>>),
        FunctionDeclaration("inner", <<>>,
            <<PrintStatement(TextLit("a")),
              LocalCall("undeclared", <<>>),
              PrintStatement(TextLit("b"))>>),
        FunctionDeclaration("extmissing", <<>>,
            <<PrintStatement(TextLit("a")),
              FunctionCallStatement("nope", <<"lib", "lib.md">>, <<CallExpr("x")>>),
              PrintStatement(TextLit("b"))>>),
        FunctionDeclaration("ext", <<>>,
            <<FunctionCallStatement("h", <<"lib", "lib.md">>, <<Lit(Num(5))>>),
              FunctionCallStatement("back", <<"lib", "lib.md">>, <<>>)>>),
        FunctionDeclaration("exttail", <<>>,
            <<PrintStatement(TextLit("a")),
              FunctionCallStatement("h", <<"lib", "lib.md">>, <<Lit(Num(5))>>)>>),
        FunctionDeclaration("chain", <<>>,
            <<ConditionalBlock(Lit(Num(1)),
                  <<FunctionCallStatement("far", <<"lib", "lib.md">>, <<>>)>>)>>),
        FunctionDeclaration("nofile", <<>>,
            <<PrintStatement(TextLit("a")),
              FunctionCallStatement("h", <<"nolib.md">>, <<>>)>>)>>))

InputProgram ==
    Prog(Functions(<<
        FunctionDeclaration("main", <<>>,
            <<InputStatement("x"), PrintStatement(Id("x")),
              InputStatement("y"), PrintStatement(Id("y")),
              InputStatement("x"), PrintStatement(Id("x"))>>),
        FunctionDeclaration("echo", <<>>,
            <<InputStatement("x"), PrintStatement(Id("x")), LocalCall("echo", <<>>)>>),
        FunctionDeclaration("sub", <<>>,
            <<LocalCall("r", <<>>), InputStatement("x"), PrintStatement(Id("x")),
              PrintStatement(Id("z"))>>),
        FunctionDeclaration("r", <<>>,
            <<InputStatement("z"), PrintStatement(Id("z"))>>)>>))

MiscProgram ==
    Prog(Functions(<<
        FunctionDeclaration("template", <<"n">>,
            <<PrintStatement(Tpl(<<LitPart(<<"n">>), ExprPart(Bin("*", Id("n"), Lit(Num(6)))),
                                   ExprPart(Id("u"))>>))>>),
        FunctionDeclaration("compound", <<>>,
            <<AssignmentStatement("x", "+", Lit(Num(1))), PrintStatement(Id("x")),
              AssignmentStatement("s", "+", TextLit("a")), PrintStatement(Id("s")),
              AssignmentStatement("x", "-", TextLit("3")), PrintStatement(Id("x")),
              AssignmentStatement("m", "-", Lit(Num(2))), PrintStatement(Id("m")),
              AssignmentStatement("p", "*", Lit(Num(4))), PrintStatement(Id("p")),
              AssignmentStatement("x", "^", Lit(Num(1)))>>),
        FunctionDeclaration("member", <<>>,
            <<AssignmentStatement("w", NoOperator, Lit(Str(<<"a", "b">>))),
              PrintStatement(Member(Id("w"), <<"l", "e", "n", "g", "t", "h">>, FALSE)),
              PrintStatement(Member(Id("w"), Lit(Num(1)), TRUE)),
              PrintStatement(Un("!", Bin("===", Id("w"), Id("q")))),
              PrintStatement(Member(Id("q"), Lit(Num(0)), TRUE))>>),
        FunctionDeclaration("bogus", <<>>,
            <<PrintStatement(TextLit("a")), [type |-> "LoopStatement"]>>)>>))

Inputs == {<<>>, <<Str(<<"a">>)>>, <<Str(<<"a">>), Str(<<"b">>)>>,
           <<Str(<<"a">>), Str(<<"b">>), Str(<<"c">>)>>,
           <<Str(<<"a">>), Str(<<"b">>), Str(<<"c">>), Str(<<"d">>)>>}

Run(p, entry, args, values) == [program |-> p, entryPoint |-> entry, entryArgs |-> args,
                                inputs |-> values]

Scenarios ==
    {Run(CountingProgram, "main", <<>>, <<>>),
     Run(CountingProgram, "loop", <<Num(0)>>, <<>>),
     Run(CountingProgram, "deep", <<Num(0)>>, <<>>),
     Run(CountingProgram, "absent", <<>>, <<>>)}
    \cup {Run(TailProgram, e, <<>>, <<>>) : e \in {"main", "siblings", "tail", "inline", "mid", "nested"}}
    \cup {Run(ScopeProgram, "main", a, <<>>) :
             a \in {<<>>, <<Num(1)>>, <<Num(1), Num(2), Num(3)>>}}
    \cup {Run(ScopeProgram, "twice", <<Num(1), Num(2)>>, <<>>)}
    \cup {Run(BreakProgram, "main", <<>>, <<>>), Run(BreakProgram, "loop", <<Num(0)>>, <<>>)}
    \cup {Run(BreakProgram, "reads", <<>>, v) : v \in Inputs}
    \cup {Run(LookupProgram, e, <<>>, <<>>) :
             e \in {"undeclared", "guarded", "broken", "badarg", "inner", "extmissing",
                    "ext", "exttail", "chain", "nofile"}}
    \cup {Run(InputProgram, e, <<>>, v) : e \in {"main", "echo", "sub"}, v \in Inputs}
    \cup {Run(MiscProgram, "template", <<Num(7)>>, <<>>)}
    \cup {Run(MiscProgram, e, <<>>, <<>>) : e \in {"compound", "member", "bogus"}}

(***************************************************************************)
(* The engine's specification.                                             *)
(***************************************************************************)
\* no second run
NoRun == [present |-> FALSE]

TransformIdle ==
    /\ mdast = <<>>
    /\ pos = 1
    /\ functions = [n \in {} |-> 0]
    /\ currentFunction = [null |-> TRUE, name |-> ""]
    /\ currentBlock = [null |-> TRUE, path |-> <<>>]

Init ==
    /\ \E sc \in Scenarios :
          /\ program = sc.program
          /\ entryPoint = sc.entryPoint
          /\ entryArgs = sc.entryArgs
          /\ inputs = sc.inputs
    /\ mode \in {"sync", "async"}
    /\ inputReader \in BOOLEAN
    /\ handlerArg \in BOOLEAN
    /\ mode = "sync" => ~inputReader /\ ~handlerArg
    /\ baseDir = <<"app">>
    /\ status = "init"
    /\ error = NoError
    /\ returned = NotReturned
    /\ hostStack = <<>>
    /\ result = NoResult
    /\ callStack = <<>>
    /\ output = <<>>
    /\ breakFlag = FALSE
    /\ inputBuffer = <<>>
    /\ inputIndex = 0
    /\ printHandler = FALSE
    /\ sink = <<>>
    /\ awaiting = FALSE
    /\ readerCalls = 0
    /\ inputsExecuted = 0
    /\ externalProgramCache = [q \in {} |-> LibProgram]
    /\ fileReads = <<>>
    /\ other = NoRun
    /\ TransformIdle

Next ==
    \/ Interpret
    \/ InterpretAsync
    \/ InterpretReturn
    \/ ExecuteFunction
    \/ ExecuteFunctionReturn
    \/ FunctionCallReturn
    \/ BlockExit
    \/ BlockResume
    \/ ExecutePrint
    \/ ExecuteAssignment
    \/ ExecuteBreak
    \/ ExecuteInput
    \/ ExecuteInputAsync
    \/ InputReaderResolve
    \/ ExecuteFunctionCall
    \/ ExecuteConditional
    \/ ExecuteUnknownStatement

Spec == Init /\ [][Next]_vars

(***************************************************************************)
(* One process, two runs.  The runs share what the module and the caller   *)
(* share: externalProgramCache, the files, and the Program object when the *)
(* caller hands the same one to both.  Each run has its own Runtime and    *)
(* host activations; the variables hold those of the run that is executing *)
(* and `other` those of the run that is not.  Control passes to the other  *)
(* run where JavaScript lets it: when the executing run awaits its         *)
(* inputReader, or has returned or thrown.                                 *)
(***************************************************************************)
RunState ==
    [mode |-> mode, baseDir |-> baseDir, entryPoint |-> entryPoint,
     entryArgs |-> entryArgs, inputs |-> inputs, inputReader |-> inputReader,
     handlerArg |-> handlerArg, status |-> status, error |-> error,
     returned |-> returned, hostStack |-> hostStack, result |-> result,
     callStack |-> callStack, output |-> output, breakFlag |-> breakFlag,
     inputBuffer |-> inputBuffer, inputIndex |-> inputIndex,
     printHandler |-> printHandler, sink |-> sink, awaiting |-> awaiting,
     readerCalls |-> readerCalls, inputsExecuted |-> inputsExecuted]

\* a call of interpret / interpretAsync that has not started
NewRun(m, dir, sc, reader, handler) ==
    [mode |-> m, baseDir |-> dir, entryPoint |-> sc.entryPoint,
     entryArgs |-> sc.entryArgs, inputs |-> sc.inputs, inputReader |-> reader,
     handlerArg |-> handler, status |-> "init", error |-> NoError,
     returned |-> NotReturned, hostStack |-> <<>>, result |-> NoResult,
     callStack |-> <<>>, output |-> <<>>, breakFlag |-> FALSE,
     inputBuffer |-> <<>>, inputIndex |-> 0,
     printHandler |-> FALSE, sink |-> <<>>, awaiting |-> FALSE,
     readerCalls |-> 0, inputsExecuted |-> 0]

\* shared: both runs were handed the same Program object
SecondRun(run, prog, shared) ==
    [present |-> TRUE, shared |-> shared, program |-> prog, run |-> run]

Finished(s) == s \in {"done", "error"}

Switch ==
    /\ other.present
    /\ awaiting \/ Finished(status)
    /\ ~Finished(other.run.status)
    /\ other' = SecondRun(RunState, program, other.shared)
    /\ program' = IF other.shared THEN program ELSE other.program
    /\ mode' = other.run.mode
    /\ baseDir' = other.run.baseDir
    /\ entryPoint' = other.run.entryPoint
    /\ entryArgs' = other.run.entryArgs
    /\ inputs' = other.run.inputs
    /\ inputReader' = other.run.inputReader
    /\ handlerArg' = other.run.handlerArg
    /\ status' = other.run.status
    /\ error' = other.run.error
    /\ returned' = other.run.returned
    /\ hostStack' = other.run.hostStack
    /\ result' = other.run.result
    /\ callStack' = other.run.callStack
    /\ output' = other.run.output
    /\ breakFlag' = other.run.breakFlag
    /\ inputBuffer' = other.run.inputBuffer
    /\ inputIndex' = other.run.inputIndex
    /\ printHandler' = other.run.printHandler
    /\ sink' = other.run.sink
    /\ awaiting' = other.run.awaiting
    /\ readerCalls' = other.run.readerCalls
    /\ inputsExecuted' = other.run.inputsExecuted
    /\ UNCHANGED <<loaderVars, transformVars>>

SharedProgram ==
    Prog(Functions(<<
        FunctionDeclaration("main", <<>>,
            <<InputStatement("x"),
              PrintStatement(Id("x")),
              FunctionCallStatement("h", <<"lib", "lib.md">>, <<Id("x")>>),
              PrintStatement(TextLit("z"))>>),
        FunctionDeclaration("stop", <<>>,
            <<PrintStatement(TextLit("s")),
              InputStatement("x"),
              PrintStatement(Id("x")),
              BreakStatement,
              PrintStatement(TextLit("t"))>>)>>))

Dirs == {<<"app">>, <<"elsewhere">>}

\* two interactive runs in flight at once
ConcurrentRuns ==
    {[first |-> NewRun("async", d1, Run(SharedProgram, e1, <<>>, v1), TRUE, h1),
      second |-> NewRun("async", d2, Run(SharedProgram, e2, <<>>, v2), TRUE, h2),
      program |-> SharedProgram, shared |-> sh] :
        d1 \in Dirs, d2 \in Dirs, e1 \in {"main", "stop"}, e2 \in {"main", "stop"},
        v1 \in {<<Str(<<"a">>)>>}, v2 \in {<<>>, <<Str(<<"b">>)>>},
        h1 \in {TRUE}, h2 \in BOOLEAN, sh \in BOOLEAN}

\* the same call made to the buffered engine and, then, to the interactive engine with
\* an inputReader that yields the same values
PairedRuns ==
    {[first |-> NewRun("sync", <<"app">>, sc, FALSE, FALSE),
      second |-> NewRun("async", <<"app">>, sc, TRUE, FALSE),
      program |-> sc.program, shared |-> TRUE] : sc \in Scenarios}

InitRuns ==
    /\ \E r \in ConcurrentRuns \cup PairedRuns :
          /\ program = r.program
          /\ other = SecondRun(r.second, r.program, r.shared)
          /\ mode = r.first.mode
          /\ baseDir = r.first.baseDir
          /\ entryPoint = r.first.entryPoint
          /\ entryArgs = r.first.entryArgs
          /\ inputs = r.first.inputs
          /\ inputReader = r.first.inputReader
          /\ handlerArg = r.first.handlerArg
    /\ status = "init"
    /\ error = NoError
    /\ returned = NotReturned
    /\ hostStack = <<>>
    /\ result = NoResult
    /\ callStack = <<>>
    /\ output = <<>>
    /\ breakFlag = FALSE
    /\ inputBuffer = <<>>
    /\ inputIndex = 0
    /\ printHandler = FALSE
    /\ sink = <<>>
    /\ awaiting = FALSE
    /\ readerCalls = 0
    /\ inputsExecuted = 0
    /\ externalProgramCache = [q \in {} |-> LibProgram]
    /\ fileReads = <<>>
    /\ TransformIdle

NextRuns ==
    \/ Next
    \/ Switch

SpecRuns == InitRuns /\ [][NextRuns]_vars

(***************************************************************************)
(* Text helpers of the transform.  Text is a sequence of characters.       *)
(***************************************************************************)
Letters == {"A", "B", "F", "H", "a", "b", "c", "d", "e", "f", "g", "h", "i", "l", "m", "n",
            "o", "r", "s", "t", "u", "x", "y", "z"}
IsWordChar(c) == c \in Letters \/ IsDigit(c) \/ c = "_"

RECURSIVE Join(_)
Join(chars) == IF chars = <<>> THEN "" ELSE Head(chars) \o Join(Tail(chars))

RECURSIVE trimStart(_)
trimStart(text) == IF text # <<>> /\ Head(text) = " " THEN trimStart(Tail(text)) ELSE text

RECURSIVE trimEnd(_)
trimEnd(text) == IF text # <<>> /\ text[Len(text)] = " "
                 THEN trimEnd(SubSeq(text, 1, Len(text) - 1)) ELSE text

trim(text) == trimEnd(trimStart(text))

includes(text, c) == \E k \in 1..Len(text) : text[k] = c
indexOf(text, c) == CHOOSE k \in 1..Len(text) : text[k] = c /\ \A j \in 1..(k - 1) : text[j] # c

\* text.split(c): the pieces between occurrences of c
RECURSIVE split(_, _, _)
split(text, c, piece) ==
    IF text = <<>> THEN <<piece>>
    ELSE IF Head(text) = c THEN <<piece>> \o split(Tail(text), c, <<>>)
    ELSE split(Tail(text), c, Append(piece, Head(text)))

RECURSIVE JoinEach(_)
JoinEach(pieces) == IF pieces = <<>> THEN <<>> ELSE <<Join(Head(pieces))>> \o JoinEach(Tail(pieces))

\* a relative path as the engine resolves it: its segments
PathOf(text) == IF text = <<>> THEN NoFile ELSE JoinEach(split(text, "/", <<>>))

(***************************************************************************)
(* parseExpression (expression-parser.js): tokens, then binary operators   *)
(* by increasing precedence, unary operators, primaries.  Parentheses and  *)
(* member access are outside the texts the model's documents use.          *)
(***************************************************************************)
SyntaxError == [type |-> "SyntaxError"]
Token(k, v) == [k |-> k, v |-> v]

RECURSIVE wordRun(_)
wordRun(text) == IF text # <<>> /\ IsWordChar(Head(text)) THEN 1 + wordRun(Tail(text)) ELSE 0

RECURSIVE digitRun(_)
digitRun(text) == IF text # <<>> /\ IsDigit(Head(text)) THEN 1 + digitRun(Tail(text)) ELSE 0

RECURSIVE quoteRun(_, _)
quoteRun(text, quote) == IF text = <<>> THEN 0
                         ELSE IF Head(text) = quote THEN 1
                         ELSE 1 + quoteRun(Tail(text), quote)

OperatorTexts == {"===", "!==", "==", "!=", "<=", ">=", "&&", "||",
                  "<", ">", "+", "-", "*", "/", "%", "!"}

operatorRun(text) ==
    IF Len(text) >= 3 /\ Join(SubSeq(text, 1, 3)) \in OperatorTexts THEN 3
    ELSE IF Len(text) >= 2 /\ Join(SubSeq(text, 1, 2)) \in OperatorTexts THEN 2
    ELSE IF Len(text) >= 1 /\ text[1] \in OperatorTexts THEN 1
    ELSE 0

RECURSIVE tokenize(_)
tokenize(text) ==
    IF text = <<>> THEN <<>>
    ELSE IF Head(text) = " " THEN tokenize(Tail(text))
    ELSE IF IsDigit(Head(text))
    THEN <<Token("num", SubSeq(text, 1, digitRun(text)))>>
         \o tokenize(SubSeq(text, digitRun(text) + 1, Len(text)))
    ELSE IF IsWordChar(Head(text))
    THEN <<Token("id", SubSeq(text, 1, wordRun(text)))>>
         \o tokenize(SubSeq(text, wordRun(text) + 1, Len(text)))
    ELSE IF Head(text) \in {"\"", "'"}
    THEN LET n == quoteRun(Tail(text), Head(text))
         IN IF n = 0 \/ text[n + 1] # Head(text) THEN <<Token("bad", text)>>
            ELSE <<Token("str", SubSeq(text, 2, n))>> \o tokenize(SubSeq(text, n + 2, Len(text)))
    ELSE IF operatorRun(text) > 0
    THEN <<Token("op", SubSeq(text, 1, operatorRun(text)))>>
         \o tokenize(SubSeq(text, operatorRun(text) + 1, Len(text)))
    ELSE <<Token("bad", text)>>

PrecedenceLevels == <<{"||"}, {"&&"}, {"==", "!=", "===", "!=="}, {"<", ">", "<=", ">="},
                      {"+", "-"}, {"*", "/", "%"}>>

BinaryNode(op, l, r) == IF l = SyntaxError \/ r = SyntaxError THEN SyntaxError ELSE Bin(op, l, r)
UnaryNode(op, a) == IF a = SyntaxError THEN SyntaxError ELSE Un(op, a)

IsBinaryAt(tokens, i, level) ==
    /\ tokens[i].k = "op"
    /\ Join(tokens[i].v) \in PrecedenceLevels[level]
    /\ tokens[i - 1].k # "op"

RECURSIVE parseLevel(_, _)
parseLevel(tokens, level) ==
    IF tokens = <<>> THEN SyntaxError
    ELSE IF level <= Len(PrecedenceLevels)
    THEN IF \E i \in 2..(Len(tokens) - 1) : IsBinaryAt(tokens, i, level)
         THEN LET i == CHOOSE k \in 2..(Len(tokens) - 1) :
                           /\ IsBinaryAt(tokens, k, level)
                           /\ \A j \in (k + 1)..(Len(tokens) - 1) : ~IsBinaryAt(tokens, j, level)
              IN BinaryNode(Join(tokens[i].v),
                            parseLevel(SubSeq(tokens, 1, i - 1), level),
                            parseLevel(SubSeq(tokens, i + 1, Len(tokens)), level + 1))
         ELSE parseLevel(tokens, level + 1)
    ELSE IF tokens[1].k = "op" /\ Join(tokens[1].v) \in {"!", "-", "+"} /\ Len(tokens) > 1
    THEN UnaryNode(Join(tokens[1].v), parseLevel(Tail(tokens), level))
    ELSE IF Len(tokens) # 1 THEN SyntaxError
    ELSE CASE tokens[1].k = "num" -> Lit(Num(StringToNat(tokens[1].v)))
           [] tokens[1].k = "id" -> Id(Join(tokens[1].v))
           [] tokens[1].k = "str" -> Lit(Str(tokens[1].v))
           [] OTHER -> SyntaxError

parseExpression(text) == parseLevel(tokenize(text), 1)

(***************************************************************************)
(* The structural document tree (mdast) the transform walks.               *)
(***************************************************************************)
TextNode(value) == [type |-> "text", value |-> value]
Emphasis(children) == [type |-> "emphasis", children |-> children]
Strong(children) == [type |-> "strong", children |-> children]
Link(url, children) == [type |-> "link", url |-> url, children |-> children]
Heading(depth, children) == [type |-> "heading", depth |-> depth, children |-> children]
Paragraph(children) == [type |-> "paragraph", children |-> children]
ListItem(children) == [type |-> "listItem", children |-> children]
List(ordered, children) == [type |-> "list", ordered |-> ordered, children |-> children]
ThematicBreak == [type |-> "thematicBreak"]
Blockquote(children) == [type |-> "blockquote", children |-> children]

RECURSIVE extractText(_)
RECURSIVE extractTextOfChildren(_)
extractTextOfChildren(children) ==
    IF children = <<>> THEN <<>>
    ELSE extractText(Head(children)) \o extractTextOfChildren(Tail(children))

extractText(node) ==
    trim((IF "value" \in DOMAIN node THEN node.value ELSE <<>>)
         \o (IF "children" \in DOMAIN node THEN extractTextOfChildren(node.children) ELSE <<>>))

NoText == [null |-> TRUE, text |-> <<>>]
SomeText(text) == [null |-> FALSE, text |-> text]

\* the text of the first emphasis child, or null
extractEmphasisText(node) ==
    LET children == IF "children" \in DOMAIN node THEN node.children ELSE <<>>
    IN IF \E k \in 1..Len(children) : children[k].type = "emphasis"
       THEN SomeText(extractText(children[CHOOSE k \in 1..Len(children) :
                                     /\ children[k].type = "emphasis"
                                     /\ \A j \in 1..(k - 1) : children[j].type # "emphasis"]))
       ELSE NoText

(***************************************************************************)
(* parseTemplateLiteral and parseParagraph.  Indices i, j count from 0 as  *)
(* in the source; text[i] of the source is text[i + 1] here.               *)
(***************************************************************************)
slice(text, from, to) == SubSeq(text, from + 1, to)

RECURSIVE closingBrace(_, _, _)
closingBrace(text, j, braceCount) ==
    IF j < Len(text) /\ braceCount > 0
    THEN closingBrace(text, j + 1,
                      braceCount + (IF text[j + 1] = "{" THEN 1 ELSE 0)
                                 - (IF text[j + 1] = "}" THEN 1 ELSE 0))
    ELSE j

RECURSIVE parseTemplateLiteralFrom(_, _, _, _)
parseTemplateLiteralFrom(text, i, current, parts) ==
    IF i < Len(text)
    THEN IF text[i + 1] = "{"
         THEN LET j == closingBrace(text, i + 1, 1)
                  saved == IF current # <<>> THEN Append(parts, LitPart(current)) ELSE parts
              IN parseTemplateLiteralFrom(text, j, <<>>,
                     Append(saved, ExprPart(parseExpression(slice(text, i + 1, j - 1)))))
         ELSE parseTemplateLiteralFrom(text, i + 1, Append(current, text[i + 1]), parts)
    ELSE IF current # <<>> THEN Append(parts, LitPart(current)) ELSE parts

parseTemplateLiteral(text) == parseTemplateLiteralFrom(text, 0, <<>>, <<>>)

NoStatement == [type |-> "null"]
Thrown(statement) ==
    \/ statement = SyntaxError
    \/ statement.type = "PrintStatement"
         /\ \/ statement.expression = SyntaxError
            \/ /\ statement.expression.type = "TemplateLiteral"
               /\ \E k \in 1..Len(statement.expression.parts) :
                     /\ statement.expression.parts[k].type = "expression"
                     /\ statement.expression.parts[k].expr = SyntaxError
    \/ statement.type = "AssignmentStatement" /\ statement.value = SyntaxError
    \/ statement.type = "FunctionCallStatement"
         /\ \E k \in 1..Len(statement.arguments) : statement.arguments[k] = SyntaxError
    \/ statement.type = "ConditionalBlock" /\ statement.condition = SyntaxError

RECURSIVE parseEach(_)
parseEach(pieces) ==
    IF pieces = <<>> THEN <<>>
    ELSE <<parseExpression(trim(Head(pieces)))>> \o parseEach(Tail(pieces))

parsePrint(strongText) ==
    IF Len(strongText) >= 3 /\ strongText[1] = "{" /\ strongText[Len(strongText)] = "}"
    THEN PrintStatement(parseExpression(SubSeq(strongText, 2, Len(strongText) - 1)))
    ELSE IF includes(strongText, "{") /\ includes(strongText, "}")
    THEN PrintStatement(Tpl(parseTemplateLiteral(strongText)))
    ELSE PrintStatement(Lit(Str(strongText)))

parseCall(link) ==
    LET argsText == extractText(link)
        args == IF argsText # <<>> THEN parseEach(split(argsText, ",", <<>>)) ELSE <<>>
    IN IF link.url # <<>> /\ link.url[1] = "#"
       THEN FunctionCallStatement(Join(Tail(link.url)), NoFile, args)
       ELSE IF includes(link.url, "#")
       THEN FunctionCallStatement(Join(SubSeq(link.url, indexOf(link.url, "#") + 1, Len(link.url))),
                                  PathOf(SubSeq(link.url, 1, indexOf(link.url, "#") - 1)),
                                  args)
       ELSE FunctionCallStatement(Join(link.url), NoFile, args)

\* text.match(/^(\w+)\s*(\+|\-|\*|\/)?=\s*(.+)$/)
parseAssignment(text) ==
    LET w == wordRun(text)
        afterName == trimStart(SubSeq(text, w + 1, Len(text)))
        hasOperator == Len(afterName) >= 2 /\ afterName[1] \in {"+", "-", "*", "/"}
                          /\ afterName[2] = "="
        operator == IF hasOperator THEN afterName[1] ELSE NoOperator
        afterEquals == SubSeq(afterName, IF hasOperator THEN 3 ELSE 2, Len(afterName))
        valueStr == IF trimStart(afterEquals) # <<>> THEN trimStart(afterEquals) ELSE afterEquals
    IN IF w > 0 /\ afterName # <<>> /\ (hasOperator \/ afterName[1] = "=") /\ valueStr # <<>>
       THEN AssignmentStatement(Join(SubSeq(text, 1, w)), operator, parseExpression(valueStr))
       ELSE NoStatement

parseParagraph(node) ==
    IF Len(node.children) = 1 /\ node.children[1].type = "strong"
    THEN parsePrint(extractText(node.children[1]))
    ELSE IF Len(node.children) = 1 /\ node.children[1].type = "link"
    THEN parseCall(node.children[1])
    ELSE parseAssignment(extractText(node))

(***************************************************************************)
(* mdastToProgram: one action per branch of the loop over mdast.children.  *)
(* currentFunction is the name under which the function being built is     *)
(* registered; currentBlock is the path, inside that function's body, of   *)
(* the statement list new statements are pushed to (<<>> = the body        *)
(* itself, <<k>> = the body of the body's k-th statement, ...).            *)
(***************************************************************************)
NoFunction == [null |-> TRUE, name |-> ""]
SomeFunction(name) == [null |-> FALSE, name |-> name]
NoBlock == [null |-> TRUE, path |-> <<>>]
SomeBlock(path) == [null |-> FALSE, path |-> path]

RECURSIVE blockAt(_, _)
blockAt(body, path) ==
    IF path = <<>> THEN body ELSE blockAt(body[Head(path)].body, Tail(path))

RECURSIVE pushAt(_, _, _)
pushAt(body, path, statement) ==
    IF path = <<>> THEN Append(body, statement)
    ELSE [body EXCEPT ![Head(path)].body = pushAt(@, Tail(path), statement)]

CurrentBody == functions[currentFunction.name].body
WithBody(body) == [functions EXCEPT ![currentFunction.name].body = body]

Transforming == status = "transform" /\ pos <= Len(mdast)
Node == mdast[pos]

\* a heading that keeps the declaration a name already has and goes on building it
TransformFunctionHeadingKeepsFirst ==
    /\ Transforming
    /\ Node.type = "heading" /\ Node.depth = 1
    /\ LET funcName == Join(extractText(Node))
       IN /\ currentFunction' = SomeFunction(funcName)
          /\ currentBlock' = SomeBlock(<<>>)
          /\ functions' = [n \in (DOMAIN functions) \cup {funcName} |->
                              IF n \in DOMAIN functions THEN functions[n]
                              ELSE FunctionDeclaration(funcName, <<>>, <<>>)]
    /\ pos' = pos + 1
    /\ UNCHANGED <<runVars, mdast>>

\* # name
TransformFunctionHeading ==
    /\ Transforming
    /\ Node.type = "heading" /\ Node.depth = 1
    /\ LET funcName == Join(extractText(Node))
       IN /\ currentFunction' = SomeFunction(funcName)
          /\ currentBlock' = SomeBlock(<<>>)
          /\ functions' = [n \in (DOMAIN functions) \cup {funcName} |->
                              IF n = funcName THEN FunctionDeclaration(funcName, <<>>, <<>>)
                              ELSE functions[n]]
    /\ pos' = pos + 1
    /\ UNCHANGED <<runVars, mdast>>

\* a transform that pushes a new conditional to the current block (nesting)
conditionalTargetCurrentBlock(block, body) == block.path

\* currentFunction.body.push(conditional): the path of the block a new conditional goes to
conditionalTarget(block, body) == <<>>

\* ## *condition*
TransformConditionalHeading ==
    /\ Transforming
    /\ Node.type = "heading" /\ Node.depth = 2 /\ ~currentFunction.null
    /\ LET conditionText == extractEmphasisText(Node)
           target == conditionalTarget(currentBlock, CurrentBody)
           conditional == ConditionalBlock(parseExpression(conditionText.text), <<>>)
       IN IF conditionText.null \/ conditionText.text = <<>>
          THEN UNCHANGED <<functions, currentBlock, status, error>>
          ELSE IF Thrown(conditional)
          THEN /\ status' = "error"
               /\ error' = Err("SyntaxError", Join(conditionText.text), <<>>)
               /\ UNCHANGED <<functions, currentBlock>>
          ELSE /\ functions' = WithBody(pushAt(CurrentBody, target, conditional))
               /\ currentBlock' = SomeBlock(Append(target,
                                                   Len(blockAt(CurrentBody, target)) + 1))
               /\ UNCHANGED <<status, error>>
    /\ pos' = pos + 1
    /\ UNCHANGED <<mode, baseDir, program, entryPoint, entryArgs, inputs, inputReader,
                   handlerArg, returned, hostStack, result, callStack, output, breakFlag,
                   inputBuffer, inputIndex, printHandler, sink, awaiting, readerCalls,
                   inputsExecuted, externalProgramCache, fileReads, other, mdast, currentFunction>>

RECURSIVE textOfEach(_)
textOfEach(items) ==
    IF items = <<>> THEN <<>> ELSE <<Join(extractText(Head(items)))>> \o textOfEach(Tail(items))

\* - varname
TransformList ==
    /\ Transforming
    /\ Node.type = "list" /\ ~Node.ordered /\ ~currentFunction.null
    /\ functions' = [functions EXCEPT ![currentFunction.name].parameters =
                                          @ \o textOfEach(Node.children)]
    /\ pos' = pos + 1
    /\ UNCHANGED <<runVars, mdast, currentFunction, currentBlock>>

TransformParagraph ==
    /\ Transforming
    /\ Node.type = "paragraph" /\ ~currentBlock.null
    /\ LET statement == parseParagraph(Node)
       IN IF Thrown(statement)
          THEN /\ status' = "error"
               /\ error' = Err("SyntaxError", Join(extractText(Node)), <<>>)
               /\ UNCHANGED functions
          ELSE /\ functions' = IF statement = NoStatement THEN functions
                               ELSE WithBody(pushAt(CurrentBody, currentBlock.path, statement))
               /\ UNCHANGED <<status, error>>
    /\ pos' = pos + 1
    /\ UNCHANGED <<mode, baseDir, program, entryPoint, entryArgs, inputs, inputReader,
                   handlerArg, returned, hostStack, result, callStack, output, breakFlag,
                   inputBuffer, inputIndex, printHandler, sink, awaiting, readerCalls,
                   inputsExecuted, externalProgramCache, fileReads, other, mdast, currentFunction,
                   currentBlock>>

\* a thematic break that appends the Break but leaves the current block where it is
TransformThematicBreakNoReset ==
    /\ Transforming
    /\ Node.type = "thematicBreak" /\ ~currentFunction.null
    /\ functions' = IF currentBlock.null THEN functions
                    ELSE WithBody(pushAt(CurrentBody, currentBlock.path, BreakStatement))
    /\ pos' = pos + 1
    /\ UNCHANGED <<runVars, mdast, currentFunction, currentBlock>>

\* ---
TransformThematicBreak ==
    /\ Transforming
    /\ Node.type = "thematicBreak" /\ ~currentFunction.null
    /\ functions' = IF currentBlock.null THEN functions
                    ELSE WithBody(pushAt(CurrentBody, currentBlock.path, BreakStatement))
    /\ currentBlock' = SomeBlock(<<>>)
    /\ pos' = pos + 1
    /\ UNCHANGED <<runVars, mdast, currentFunction>>

\* no branch of the loop takes the node
TransformIgnored ==
    /\ Transforming
    /\ ~(Node.type = "heading" /\ Node.depth = 1)
    /\ ~(Node.type = "heading" /\ Node.depth = 2 /\ ~currentFunction.null)
    /\ ~(Node.type = "list" /\ ~Node.ordered /\ ~currentFunction.null)
    /\ ~(Node.type = "paragraph" /\ ~currentBlock.null)
    /\ ~(Node.type = "thematicBreak" /\ ~currentFunction.null)
    /\ pos' = pos + 1
    /\ UNCHANGED <<runVars, mdast, functions, currentFunction, currentBlock>>

(***************************************************************************)
(* The documents the transform is run on, and its specification.           *)
(***************************************************************************)
MaxNodes == 4       \* top-level nodes per document

NodeKinds ==
    {Heading(1, <<TextNode(<<"m">>)>>),
     Heading(1, <<TextNode(<<"f">>)>>),
     Heading(2, <<Emphasis(<<TextNode(<<"n", " ", "<", " ", "3">>)>>)>>),
     Heading(2, <<TextNode(<<"n">>)>>),
     List(FALSE, <<ListItem(<<Paragraph(<<TextNode(<<"n">>)>>)>>)>>),
     Paragraph(<<Strong(<<TextNode(<<"{", "n", "}">>)>>)>>),
     Paragraph(<<Link(<<"#", "f">>, <<TextNode(<<"n", " ", "+", " ", "1">>)>>)>>),
     Paragraph(<<TextNode(<<"n", " ", "+", "=", " ", "1">>)>>),
     ThematicBreak,
     Blockquote(<<Paragraph(<<TextNode(<<"x">>)>>)>>)}

Documents == UNION {[1..len -> NodeKinds] : len \in 0..MaxNodes}

InitTransform ==
    /\ mdast \in Documents
    /\ pos = 1
    /\ functions = [n \in {} |-> 0]
    /\ currentFunction = NoFunction
    /\ currentBlock = NoBlock
    /\ status = "transform"
    /\ error = NoError
    /\ mode = "sync"
    /\ baseDir = <<>>
    /\ program = Prog([n \in {} |-> 0])
    /\ entryPoint = "main"
    /\ entryArgs = <<>>
    /\ inputs = <<>>
    /\ inputReader = FALSE
    /\ handlerArg = FALSE
    /\ returned = NotReturned
    /\ hostStack = <<>>
    /\ result = NoResult
    /\ callStack = <<>>
    /\ output = <<>>
    /\ breakFlag = FALSE
    /\ inputBuffer = <<>>
    /\ inputIndex = 0
    /\ printHandler = FALSE
    /\ sink = <<>>
    /\ awaiting = FALSE
    /\ readerCalls = 0
    /\ inputsExecuted = 0
    /\ externalProgramCache = [q \in {} |-> LibProgram]
    /\ fileReads = <<>>
    /\ other = NoRun

NextTransform ==
    \/ TransformFunctionHeading
    \/ TransformConditionalHeading
    \/ TransformList
    \/ TransformParagraph
    \/ TransformThematicBreak
    \/ TransformIgnored

SpecTransform == InitTransform /\ [][NextTransform]_vars

(***************************************************************************)
(* Print paragraphs: a function heading, at most one node that moves the   *)
(* current block or is skipped, then a paragraph holding one bold span     *)
(* whose text is drawn from short texts over braces, a letter and a space, *)
(* and from the longer texts of the language's examples.                   *)
(***************************************************************************)
MaxText == 3        \* characters of a generated bold text

TextAlphabet == {"{", "}", "a", " "}

BoldTexts ==
    UNION {[1..len -> TextAlphabet] : len \in 0..MaxText}
      \cup {<<"{", "a", "}", " ", "a", "n", "d", " ", "{", "b", "}">>,
            <<"{", "a", "}", "{", "b", "}">>,
            <<"H", "i", " ", "{", "a", "}", "!">>,
            <<"{", "a", " ", "+", " ", "1", "}">>,
            <<"d", "o", "n", "e">>}

Preludes ==
    {<<>>,
     <<Heading(2, <<Emphasis(<<TextNode(<<"n", " ", "<", " ", "3">>)>>)>>)>>,
     <<List(FALSE, <<ListItem(<<Paragraph(<<TextNode(<<"n">>)>>)>>)>>)>>,
     <<ThematicBreak>>,
     <<Blockquote(<<Paragraph(<<TextNode(<<"x">>)>>)>>)>>}

PrintDocuments ==
    {<<Heading(1, <<TextNode(<<"m">>)>>)>> \o prelude \o <<Paragraph(<<Strong(<<TextNode(t)>>)>>)>> :
        prelude \in Preludes, t \in BoldTexts}

InitPrint ==
    /\ mdast \in PrintDocuments
    /\ pos = 1
    /\ functions = [n \in {} |-> 0]
    /\ currentFunction = NoFunction
    /\ currentBlock = NoBlock
    /\ status = "transform"
    /\ error = NoError
    /\ mode = "sync"
    /\ baseDir = <<>>
    /\ program = Prog([n \in {} |-> 0])
    /\ entryPoint = "main"
    /\ entryArgs = <<>>
    /\ inputs = <<>>
    /\ inputReader = FALSE
    /\ handlerArg = FALSE
    /\ returned = NotReturned
    /\ hostStack = <<>>
    /\ result = NoResult
    /\ callStack = <<>>
    /\ output = <<>>
    /\ breakFlag = FALSE
    /\ inputBuffer = <<>>
    /\ inputIndex = 0
    /\ printHandler = FALSE
    /\ sink = <<>>
    /\ awaiting = FALSE
    /\ readerCalls = 0
    /\ inputsExecuted = 0
    /\ externalProgramCache = [q \in {} |-> LibProgram]
    /\ fileReads = <<>>
    /\ other = NoRun

SpecPrint == InitPrint /\ [][NextTransform]_vars

(***************************************************************************)
(* Properties.                                                             *)
(***************************************************************************)
RunOf(p, entry) == program.functions = p.functions /\ entryPoint = entry
IsPrefix(a, b) == Len(a) <= Len(b) /\ \A k \in 1..Len(a) : a[k] = b[k]
ZeroToFour == <<Num(0), Num(1), Num(2), Num(3), Num(4)>>
ValueInTopFrame(stack, name) ==
    IF stack # <<>> /\ name \in DOMAIN stack[Len(stack)].variables
    THEN stack[Len(stack)].variables[name]
    ELSE Undefined

\* C1 as stated: the counting program prints 0, 1, 2, 3, 4 in that order and then
\* terminates; at every point its output is a prefix of 0..4, and all of it at the end.
C1_PrintsZeroToFour ==
    RunOf(CountingProgram, "main") =>
        /\ IsPrefix(output, ZeroToFour)
        /\ status = "done" => output = ZeroToFour

\* C1 amended: every entry to main binds count to 0 in a fresh frame, so the program
\* prints 0 at each entry, keeps tail-calling main on a one-frame call stack and never
\* terminates (neither normally nor with an error).
C1_PrintsZeroForever ==
    RunOf(CountingProgram, "main") =>
        /\ \A k \in 1..Len(output) : output[k] = Num(0)
        /\ status \notin {"done", "error"}
        /\ Len(callStack) <= 1

\* the counting program has printed more values than the five the scenario expects
C1_Witness ==
    /\ RunOf(CountingProgram, "main")
    /\ Len(output) = 6
    /\ status = "running"

\* C2 as stated: a tail-call descriptor is handed up only through blocks that are in
\* tail position: whenever a block receives one from a nested conditional, that
\* conditional is the block's last statement (otherwise the call would have run inline
\* and the block's following statements would still run).
\* So a function whose first conditional prints "a" and ends with a call of f (which
\* prints "b"), followed by a statement printing "c", prints a, b, c.
C2_TailCallOnlyInTailPosition ==
    /\ (status = "running" /\ hostStack # <<>> /\ Top.k = "executeBlock"
           /\ result.type = "TAIL_CALL")
       => Top.i = Len(Top.statements)
    /\ (status = "done" /\ (RunOf(TailProgram, "main") \/ RunOf(TailProgram, "siblings")))
       => output = <<Str(<<"a">>), Str(<<"b">>), Str(<<"c">>)>>

\* C3: a function entry pushes a frame holding exactly the parameters bound by
\* position to the argument values (undefined when there is no argument, surplus
\* arguments dropped); the argument values are those of the caller's frame, computed
\* while that frame is still the top; every step leaves the frames below the top as
\* they were; a read of an identifier sees the top frame only.
ExpectedVariables(parameters, args) ==
    [name \in {parameters[i] : i \in 1..Len(parameters)} |->
        LET i == CHOOSE j \in 1..Len(parameters) :
                     parameters[j] = name /\ \A m \in (j + 1)..Len(parameters) : parameters[m] # name
        IN IF i <= Len(args) THEN args[i] ELSE Undefined]

C3_FunctionEntry ==
    Len(callStack') = Len(callStack) + 1 =>
        /\ result.type = "TAIL_CALL"
        /\ callStack'[Len(callStack')].functionName = result.func.name
        /\ callStack'[Len(callStack')].variables
              = ExpectedVariables(result.func.parameters, result.args)
        /\ SubSeq(callStack', 1, Len(callStack)) = callStack

C3_ArgumentsFromCallerFrame ==
    (AtStatementOfType("FunctionCallStatement") /\ result'.type = "TAIL_CALL") =>
        /\ callStack' = callStack
        /\ Len(result'.args) = Len(Statement.arguments)
        /\ \A k \in 1..Len(Statement.arguments) :
              /\ Statement.arguments[k].type = "Identifier" =>
                    result'.args[k] = ValueInTopFrame(callStack, Statement.arguments[k].name)
              /\ Statement.arguments[k].type = "Literal" =>
                    result'.args[k] = Statement.arguments[k].value

C3_OnlyTopFrameTouched ==
    /\ Len(callStack') = Len(callStack) =>
          \A k \in 1..(Len(callStack) - 1) : callStack'[k] = callStack[k]
    /\ Len(callStack') < Len(callStack) =>
          callStack' = SubSeq(callStack, 1, Len(callStack) - 1)
    /\ (AtStatementOfType("PrintStatement") /\ Statement.expression.type = "Identifier"
           /\ output' # output) =>
          output' = Append(output, ValueInTopFrame(callStack, Statement.expression.name))

C3_FreshFrames ==
    [][C3_FunctionEntry /\ C3_ArgumentsFromCallerFrame /\ C3_OnlyTopFrameTouched]_vars

\* f runs in a non-tail call from main: x is bound to main's a, and f's read of a,
\* which only main's frame binds, printed undefined
C3_Witness ==
    /\ RunOf(ScopeProgram, "main")
    /\ Len(callStack) = 2
    /\ callStack[2].functionName = "f"
    /\ callStack[1].variables["a"] = Num(1)
    /\ callStack[2].variables["x"] = Num(1)
    /\ "a" \notin DOMAIN callStack[2].variables
    /\ output = <<Num(1), Undefined>>

UndeclaredCall ==
    /\ AtStatementOfType("FunctionCallStatement")
    /\ IF Statement.externalFile = NoFile
       THEN Statement.functionName \notin DOMAIN Deref(Top.program).functions
       ELSE LET fullPath == resolve(IF Deref(Top.program).baseDir # <<>>
                                    THEN Deref(Top.program).baseDir
                                    ELSE Cwd, Statement.externalFile)
            IN /\ fullPath \in FilePaths
               /\ Statement.functionName \notin DOMAIN Files[fullPath].functions

LookupMessages == {"Function not found", "Function not found in"}

C5_UndeclaredCallFails ==
    /\ [][/\ UndeclaredCall =>
               /\ status' = "error"
               /\ error'.message \in LookupMessages
               /\ error'.name = Statement.functionName
               /\ error'.file = Statement.externalFile
               /\ callStack' = callStack
               /\ output' = output
               /\ sink' = sink
          /\ (status = "running" /\ status' = "error" /\ error'.message \in LookupMessages)
               => UndeclaredCall]_vars
    /\ [](RunOf(LookupProgram, "guarded") \/ RunOf(LookupProgram, "broken")
            => status # "error")

\* the call [x()](#missing) failed on the lookup, after "a" was printed
C5_Witness ==
    /\ RunOf(LookupProgram, "undeclared")
    /\ status = "error"
    /\ error = Err("Function not found", "missing", <<>>)
    /\ output = <<Str(<<"a">>)>>

\* C6 as stated: when a run has failed after printing, the caller has the printed
\* values: returned by interpret in buffered mode, received by the sink in
\* interactive mode.
C6_OutputSurvivesError ==
    (status = "error" /\ output # <<>>) =>
        IF mode = "sync" THEN returned = Returned(output)
        ELSE handlerArg => sink = output

\* C7 as stated: right after a blockquote met inside a function has been transformed,
\* the last statement of that function's current block is an Input statement naming
\* the quoted text as its target variable.
C7_BlockquoteYieldsInput ==
    (status = "transform" /\ pos > 1 /\ mdast[pos - 1].type = "blockquote"
        /\ ~currentFunction.null /\ ~currentBlock.null)
    => LET block == blockAt(CurrentBody, currentBlock.path)
       IN /\ block # <<>>
          /\ block[Len(block)] = InputStatement(Join(extractText(mdast[pos - 1])))

\* a level-2 heading with a well-formed condition, met inside a function
ConditionalHeadingStep ==
    /\ Transforming
    /\ Node.type = "heading" /\ Node.depth = 2
    /\ ~currentFunction.null /\ ~currentBlock.null
    /\ ~extractEmphasisText(Node).null
    /\ extractEmphasisText(Node).text # <<>>
    /\ status' = "transform"

NewConditional == ConditionalBlock(parseExpression(extractEmphasisText(Node).text), <<>>)

\* C8 as stated: a conditional heading met while the current block is the body of a
\* conditional is appended to that conditional's body, and the function's top-level
\* body keeps its length.
C8_ConditionalNests ==
    [][(ConditionalHeadingStep /\ currentBlock.path # <<>>) =>
          /\ blockAt(functions'[currentFunction.name].body, currentBlock.path)
                = Append(blockAt(CurrentBody, currentBlock.path), NewConditional)
          /\ Len(functions'[currentFunction.name].body) = Len(CurrentBody)]_vars

NoNestedConditional ==
    \A f \in DOMAIN functions :
        \A k \in 1..Len(functions[f].body) :
            functions[f].body[k].type = "ConditionalBlock" =>
                \A j \in 1..Len(functions[f].body[k].body) :
                    functions[f].body[k].body[j].type # "ConditionalBlock"

\* C8 amended: every conditional heading appends its conditional to the function's
\* top-level body, as a sibling of the conditional that was current, and makes the new
\* conditional's body the current block; no conditional is ever nested in another; the
\* current block returns to a top-level body only at a thematic break or at the level-1
\* heading that starts a function.
C8_ConditionalsAreSiblings ==
    /\ [][/\ ConditionalHeadingStep =>
               /\ functions'[currentFunction.name].body
                     = Append(CurrentBody, NewConditional)
               /\ currentBlock' = SomeBlock(<<Len(CurrentBody) + 1>>)
               /\ \A f \in DOMAIN functions \ {currentFunction.name} :
                     functions'[f] = functions[f]
          /\ (~currentBlock.null /\ currentBlock.path # <<>> /\ currentBlock'.path = <<>>) =>
               \/ Node.type = "thematicBreak"
               \/ Node.type = "heading" /\ Node.depth = 1]_vars
    /\ [](NoNestedConditional /\ Len(currentBlock.path) <= 1)

\* a second conditional heading met inside the first conditional's body, which already
\* holds a statement: the two conditionals are the function body's statements 1 and 2
C8_Witness ==
    /\ status = "transform"
    /\ ~currentFunction.null
    /\ Len(CurrentBody) = 2
    /\ CurrentBody[1].type = "ConditionalBlock"
    /\ CurrentBody[2].type = "ConditionalBlock"
    /\ Len(CurrentBody[1].body) = 1
    /\ CurrentBody[1].body[1].type = "PrintStatement"
    /\ CurrentBody[2].body = <<>>
    /\ currentBlock = SomeBlock(<<2>>)
    /\ mdast[pos - 1].type = "heading"

\* C9: in buffered mode the k-th Input statement executed binds inputs[k] in the top
\* frame, or null once k is past the end; the read position is the number of elements
\* delivered so far, min(k, length), and never exceeds the length.
C9_InputsInOrder ==
    /\ [][(mode = "sync" /\ inputsExecuted' = inputsExecuted + 1) =>
             /\ AtStatementOfType("InputStatement")
             /\ Len(callStack') = Len(callStack)
             /\ callStack'[Len(callStack')].variables[Statement.variable]
                   = IF inputsExecuted' <= Len(inputs) THEN inputs[inputsExecuted']
                     ELSE Null]_vars
    /\ [](mode = "sync" =>
             /\ inputIndex <= Len(inputBuffer)
             /\ inputIndex <= Len(inputs)
             /\ inputIndex = IF inputsExecuted <= Len(inputs) THEN inputsExecuted
                             ELSE Len(inputs))

\* three Input statements executed on two supplied values: a, b, then null
C9_Witness ==
    /\ mode = "sync"
    /\ RunOf(InputProgram, "main")
    /\ inputs = <<Str(<<"a">>), Str(<<"b">>)>>
    /\ inputsExecuted = 3
    /\ inputIndex = 2
    /\ callStack # <<>>
    /\ callStack[1].variables["x"] = Null
    /\ callStack[1].variables["y"] = Str(<<"b">>)
    /\ output = <<Str(<<"a">>), Str(<<"b">>)>>

\* C10: when a sink was supplied at the start of the run, the values delivered to it
\* are at every point exactly the accumulated output, in the same order.
C10_SinkEqualsOutput ==
    handlerArg => sink = output

\* a run with a sink that printed three values and completed
C10_Witness ==
    /\ handlerArg
    /\ status = "done"
    /\ Len(output) = 3
    /\ sink = output


\* C11: in interactive mode an Input statement invokes the provider once and suspends
\* the run without advancing; while the run is suspended its only step is the delivery,
\* which binds the delivered value in the top frame (the frame of the read, untouched
\* since) and moves on to the next statement; nothing is printed and the run does not
\* complete or fail while it waits, so a provider that never delivers leaves it waiting
\* for ever.  The provider has been invoked once per executed Input statement.
C11_Suspends ==
    (mode = "async" /\ inputReader /\ AtStatementOfType("InputStatement")) =>
        /\ awaiting'
        /\ readerCalls' = readerCalls + 1
        /\ hostStack' = hostStack
        /\ callStack' = callStack
        /\ output' = output /\ sink' = sink
        /\ status' = "running"

C11_Delivery ==
    awaiting =>
        /\ ~awaiting'
        /\ readerCalls' = readerCalls
        /\ output' = output /\ sink' = sink
        /\ status' = "running"
        /\ Len(callStack') = Len(callStack)
        /\ \A k \in 1..(Len(callStack) - 1) : callStack'[k] = callStack[k]
        /\ callStack'[Len(callStack')].functionName = callStack[Len(callStack)].functionName
        /\ callStack'[Len(callStack')].variables[Statement.variable]
              = IF readerCalls <= Len(inputs) THEN inputs[readerCalls] ELSE Null
        /\ \A v \in DOMAIN callStack[Len(callStack)].variables \ {Statement.variable} :
              callStack'[Len(callStack')].variables[v] = callStack[Len(callStack)].variables[v]
        /\ Len(hostStack') = Len(hostStack)
        /\ hostStack'[Len(hostStack')].i = Top.i + 1

C11_InputAwaitsProvider ==
    /\ [][C11_Suspends /\ C11_Delivery]_vars
    /\ []((mode = "async" /\ inputReader) => readerCalls = inputsExecuted)
    /\ [](awaiting => /\ status = "running"
                      /\ Top.k = "executeBlock"
                      /\ Statement.type = "InputStatement"
                      /\ callStack # <<>>)

\* the second Input statement of a run is waiting for the provider: the first value was
\* bound and printed, the statement after the second Input has not run
C11_Witness ==
    /\ RunOf(InputProgram, "main")
    /\ mode = "async" /\ inputReader
    /\ awaiting
    /\ readerCalls = 2
    /\ callStack[1].variables["x"] = Str(<<"a">>)
    /\ "y" \notin DOMAIN callStack[1].variables
    /\ output = <<Str(<<"a">>)>>


\* C12: over the runs of one process, a file that exists is read and parsed at most
\* once; a cache entry, once made, is never replaced or removed; an external call whose
\* resolved path is cached reads nothing and dispatches against the cached Program, and
\* one whose path is not cached reads the file once and caches it.
ExternalCall ==
    /\ AtStatementOfType("FunctionCallStatement")
    /\ Statement.externalFile # NoFile

CalledPath ==
    resolve(IF Deref(Top.program).baseDir # <<>> THEN Deref(Top.program).baseDir ELSE Cwd,
            Statement.externalFile)

C12_CacheStep ==
    /\ \A path \in DOMAIN externalProgramCache :
          /\ path \in DOMAIN externalProgramCache'
          /\ externalProgramCache'[path] = externalProgramCache[path]
    /\ (ExternalCall /\ CalledPath \in DOMAIN externalProgramCache) =>
          /\ fileReads' = fileReads
          /\ externalProgramCache' = externalProgramCache
          /\ status' = "running" =>
                /\ result'.program = CalledPath
                /\ result'.func
                      = externalProgramCache[CalledPath].functions[Statement.functionName]
    /\ (ExternalCall /\ CalledPath \notin DOMAIN externalProgramCache) =>
          /\ fileReads' = Append(fileReads, CalledPath)
          /\ CalledPath \in FilePaths =>
                /\ DOMAIN externalProgramCache' = DOMAIN externalProgramCache \cup {CalledPath}
                /\ externalProgramCache'[CalledPath].functions = Files[CalledPath].functions
    /\ ~ExternalCall => fileReads' = fileReads /\ externalProgramCache' = externalProgramCache

SoloOutcome(entry, dir, values) ==
    LET v == IF values # <<>> THEN values[1] ELSE Null
    IN IF entry = "stop"
       THEN [status |-> "done", output |-> <<Str(<<"s">>), v>>, error |-> NoError]
       ELSE IF dir = <<"app">>
       THEN [status |-> "done", output |-> <<v, v, Num(2), Str(<<"z">>)>>, error |-> NoError]
       ELSE [status |-> "error", output |-> <<v>>,
             error |-> Err("ENOENT", "", dir \o <<"lib", "lib.md">>)]

BothInteractive ==
    /\ other.present
    /\ mode = "async" /\ other.run.mode = "async"
    /\ program.functions = SharedProgram.functions

\* C13 as stated: of two interactive runs in flight at once, each ends as it ends when
\* run alone: with the same status, the same output and, if it fails, the same error.
C13_RunsAreIndependent ==
    (BothInteractive /\ Finished(status)) =>
        /\ status = SoloOutcome(entryPoint, baseDir, inputs).status
        /\ output = SoloOutcome(entryPoint, baseDir, inputs).output
        /\ error = SoloOutcome(entryPoint, baseDir, inputs).error


\* C14: a run whose entry function is not declared fails at its first step with the
\* error naming the entry function; no frame is ever pushed, no statement executes and
\* nothing is printed or sent to the sink, in either mode.
AbsentEntry == entryPoint \notin DOMAIN program.functions

C14_AbsentEntryFails ==
    /\ [][(status = "init" /\ AbsentEntry) =>
             /\ status' = "error"
             /\ error' = Err("Entry function not found", entryPoint, <<>>)
             /\ returned' = NotReturned]_vars
    /\ [](AbsentEntry =>
             /\ status \in {"init", "error"}
             /\ callStack = <<>>
             /\ hostStack = <<>>
             /\ output = <<>>
             /\ sink = <<>>
             /\ inputsExecuted = 0 /\ readerCalls = 0 /\ inputIndex = 0)

\* an interactive run with a sink, started on an entry function that does not exist
C14_Witness ==
    /\ RunOf(CountingProgram, "absent")
    /\ mode = "async" /\ handlerArg /\ printHandler
    /\ status = "error"
    /\ error = Err("Entry function not found", "absent", <<>>)
    /\ sink = <<>>


\* C15: a compound assignment to a variable the top frame does not bind behaves as if
\* the variable held 0 when the right-hand side is a number and "" when it is a string:
\* x += n binds n, x -= n binds 0 - n, x *= n binds 0, and s += "text" binds "text".
UnboundCompound ==
    /\ AtStatementOfType("AssignmentStatement")
    /\ Statement.operator # NoOperator
    /\ Statement.variable \notin DOMAIN callStack[Len(callStack)].variables

C15_CompoundDefault ==
    [][(UnboundCompound /\ status' = "running") =>
          LET rhs == evaluate(Statement.value, callStack)
              bound == callStack'[Len(callStack')].variables[Statement.variable]
          IN /\ (rhs.t = "number" /\ Statement.operator = "+") => bound = rhs
             /\ (rhs.t = "number" /\ Statement.operator = "-") => bound = Num(0 - rhs.n)
             /\ (rhs.t = "number" /\ Statement.operator = "*") => bound = Num(0)
             /\ (rhs.t = "string" /\ Statement.operator = "+") => bound = rhs]_vars

\* x += 1 and s += "a" ran on unbound x and s: x is 1 and s is "a"
C15_Witness ==
    /\ RunOf(MiscProgram, "compound")
    /\ status = "running"
    /\ output = <<Num(1), Str(<<"a">>)>>
    /\ callStack[1].variables["x"] = Num(1)
    /\ callStack[1].variables["s"] = Str(<<"a">>)


\* C16: every frame is pushed by a trampoline loop that has no other frame of its own
\* on the stack: the entry loop pushes onto the empty stack, the loop of a non-tail call
\* onto the frames of its call statement, so the callee of a tail call runs at the
\* stack length its caller ran at.  The frames are as many as the executeFunction
\* activations, at most one per loop; a run with no non-tail call in progress has at
\* most one frame.
Activations(kind) == Cardinality({k \in 1..Len(hostStack) : hostStack[k].k = kind})

C16_TailCallReusesDepth ==
    /\ [][Len(callStack') = Len(callStack) + 1 =>
             /\ Top.k \in {"interpret", "executeFunctionCall"}
             /\ callStack = IF Top.k = "interpret" THEN <<>> ELSE Top.frames]_vars
    /\ [](status = "running" =>
             /\ Len(callStack) = Activations("executeFunction")
             /\ Activations("executeFunction") <= 1 + Activations("executeFunctionCall")
             /\ Activations("executeFunctionCall") = 0 => Len(callStack) <= 1)

\* loop(0) has tail-called itself three times: the fourth activation runs on one frame
C16_Witness ==
    /\ RunOf(CountingProgram, "loop")
    /\ status = "running"
    /\ output = <<Num(0), Num(1), Num(2)>>
    /\ Len(callStack) = 1
    /\ callStack[1].variables["n"] = Num(3)


\* C17: when the loop of a non-tail call ends, the call stack is the one the call
\* statement started with: the caller's frame is the top, with the bindings it had.
\* Until then the caller's block does not move: each step changes only the topmost host
\* activation (or pops it, or pushes above it), so every print of the callee and of
\* what it tail-called comes before the caller's next statement.
NonTailCallEnds ==
    /\ status = "running"
    /\ hostStack # <<>>
    /\ Top.k = "executeFunctionCall"
    /\ result = NullResult

C17_CallerResumes ==
    /\ [](NonTailCallEnds => callStack = Top.frames)
    /\ [][/\ NonTailCallEnds =>
               /\ callStack' = callStack
               /\ output' = output
               /\ hostStack' = Popped
          /\ hostStack' # <<>> =>
               /\ Len(hostStack') >= Len(hostStack) - 1
               /\ \A k \in 1..(Len(hostStack) - 1) :
                     k <= Len(hostStack') => hostStack'[k] = hostStack[k]
          /\ output' # output =>
               /\ Top.k = "executeBlock"
               /\ Statement.type = "PrintStatement"]_vars

\* main's non-tail call of f has ended: f printed 1, undefined, 7 and tail-called g,
\* which printed twice; main's frame still binds t to 7 although f assigned its own t
C17_Witness ==
    /\ RunOf(ScopeProgram, "main")
    /\ NonTailCallEnds
    /\ Len(hostStack) = 4
    /\ Len(output) = 5
    /\ output[3] = Num(7)
    /\ Len(callStack) = 1
    /\ callStack[1].functionName = "main"
    /\ callStack[1].variables["t"] = Num(7)
    /\ callStack[1].variables["a"] = Num(1)


\* C18: whenever a block is executing, the call stack is non-empty and its top frame is
\* the frame of the function whose body the block belongs to (the body itself or the
\* body of a conditional nested in it); a run that has completed normally has popped
\* every frame it pushed.
RECURSIVE Contains(_, _)
Contains(body, block) ==
    \/ body = block
    \/ \E k \in 1..Len(body) :
          /\ body[k].type = "ConditionalBlock"
          /\ Contains(body[k].body, block)

BlockExecuting == status = "running" /\ hostStack # <<>> /\ Top.k = "executeBlock"

C18_TopFrameIsExecuting ==
    /\ BlockExecuting =>
          /\ callStack # <<>>
          /\ currentFrame(callStack).functionName \in DOMAIN Deref(Top.program).functions
          /\ Contains(Deref(Top.program).functions[currentFrame(callStack).functionName].body,
                      Top.statements)
    /\ status = "done" => callStack = <<>>
    /\ status = "init" => callStack = <<>>

\* the body of g's conditional is executing, two frames deep, in g's frame
C18_Witness ==
    /\ RunOf(BreakProgram, "main")
    /\ BlockExecuting
    /\ Top.statements = <<BreakStatement>>
    /\ Len(callStack) = 2
    /\ callStack[1].functionName = "main"
    /\ callStack[2].functionName = "g"


\* C19: the same call (program, entry function, arguments, baseDir) made to the
\* buffered engine with an input sequence and to the interactive engine with a
\* provider yielding that sequence ends the same way: both complete and return the same
\* output, or both fail with the same error having printed the same values; and as
\* long as the interactive run is under way its output is a prefix of the buffered
\* run's.
Paired ==
    /\ other.present
    /\ mode = "async" /\ inputReader
    /\ other.run.mode = "sync"
    /\ other.run.entryPoint = entryPoint
    /\ other.run.entryArgs = entryArgs
    /\ other.run.inputs = inputs
    /\ other.run.baseDir = baseDir

C19_EnginesAgree ==
    (Paired /\ Finished(other.run.status)) =>
        /\ IsPrefix(output, other.run.output)
        /\ Finished(status) =>
              /\ status = other.run.status
              /\ output = other.run.output
              /\ error = other.run.error
              /\ returned = other.run.returned

\* both engines ran three Input statements on the values a, b: each printed a, b, null
C19_Witness ==
    /\ Paired
    /\ RunOf(InputProgram, "main")
    /\ inputs = <<Str(<<"a">>), Str(<<"b">>)>>
    /\ status = "done" /\ other.run.status = "done"
    /\ readerCalls = 3
    /\ returned = Returned(<<Str(<<"a">>), Str(<<"b">>), Null>>)
    /\ other.run.returned = returned


\* C20: a thematic break inside a function appends a Break statement at the end of the
\* block that was current, changes nothing else of the program, and makes the
\* function's top-level body the current block; the current block then stays the
\* top-level body until the next heading, and a statement transformed meanwhile is
\* appended to the function body.  A thematic break outside any function changes nothing.
ThematicBreakStep == Transforming /\ Node.type = "thematicBreak"

C20_BreakStep ==
    ThematicBreakStep =>
        IF currentFunction.null
        THEN functions' = functions /\ currentFunction' = currentFunction
             /\ currentBlock' = currentBlock
        ELSE /\ ~currentBlock.null
             /\ blockAt(functions'[currentFunction.name].body, currentBlock.path)
                   = Append(blockAt(CurrentBody, currentBlock.path), BreakStatement)
             /\ DOMAIN functions' = DOMAIN functions
             /\ \A f \in DOMAIN functions \ {currentFunction.name} :
                   functions'[f] = functions[f]
             /\ functions'[currentFunction.name].parameters
                   = functions[currentFunction.name].parameters
             /\ Len(functions'[currentFunction.name].body)
                   = Len(CurrentBody) + (IF currentBlock.path = <<>> THEN 1 ELSE 0)
             /\ currentFunction' = currentFunction
             /\ currentBlock' = SomeBlock(<<>>)

C20_AfterBreak ==
    /\ (Transforming /\ ~currentBlock.null /\ currentBlock.path = <<>>
           /\ Node.type # "heading") =>
          currentBlock' = currentBlock
    /\ (Transforming /\ ~currentBlock.null /\ currentBlock.path = <<>>
           /\ Node.type = "paragraph" /\ functions' # functions) =>
          /\ Len(functions'[currentFunction.name].body) = Len(CurrentBody) + 1
          /\ SubSeq(functions'[currentFunction.name].body, 1, Len(CurrentBody)) = CurrentBody
          /\ functions'[currentFunction.name].body[Len(CurrentBody) + 1] = parseParagraph(Node)

C20_ThematicBreak ==
    [][C20_BreakStep /\ C20_AfterBreak]_vars

\* "# m", "## *n < 3*", "---", "**{n}**": the Break is the conditional's only
\* statement and the print that follows it is the function body's second statement
C20_Witness ==
    /\ status = "transform"
    /\ pos = 5
    /\ mdast[3].type = "thematicBreak"
    /\ ~currentFunction.null
    /\ Len(CurrentBody) = 2
    /\ CurrentBody[1].type = "ConditionalBlock"
    /\ CurrentBody[1].body = <<BreakStatement>>
    /\ CurrentBody[2].type = "PrintStatement"
    /\ currentBlock = SomeBlock(<<>>)


(***************************************************************************)
(* C21.  Bold paragraphs.                                                  *)
(***************************************************************************)
\* opening braces minus closing braces among the first k characters
RECURSIVE BraceDepth(_, _)
BraceDepth(text, k) ==
    IF k = 0 THEN 0
    ELSE BraceDepth(text, k - 1) + (IF text[k] = "{" THEN 1 ELSE 0)
                                 - (IF text[k] = "}" THEN 1 ELSE 0)

\* the text is one brace pair: the brace that opens it is closed by its last character
OneWholePair(text) ==
    /\ Len(text) >= 2
    /\ text[1] = "{" /\ text[Len(text)] = "}"
    /\ BraceDepth(text, Len(text)) = 0
    /\ \A k \in 1..(Len(text) - 1) : BraceDepth(text, k) > 0

ContainsBracePair(text) ==
    \E i, j \in 1..Len(text) : i < j /\ text[i] = "{" /\ text[j] = "}"

\* the expression the language assigns to a bold text
BoldExpression(text) ==
    IF OneWholePair(text) THEN parseExpression(SubSeq(text, 2, Len(text) - 1))
    ELSE IF ContainsBracePair(text) THEN Tpl(parseTemplateLiteral(text))
    ELSE Lit(Str(text))

BoldParagraphStep ==
    /\ Transforming
    /\ Node.type = "paragraph" /\ ~currentBlock.null
    /\ Len(Node.children) = 1 /\ Node.children[1].type = "strong"

\* C21 (as stated): a paragraph holding only a bold span becomes a Print whose
\* expression is the parsed contents when the text is one brace pair spanning the
\* whole text, a Template when the text contains a brace pair but is not one
\* whole-text pair (as in "{a} and {b}"), and a string Literal of the text otherwise;
\* the transform fails only when such an expression does not parse.
C21_BoldBecomesPrint ==
    [][BoldParagraphStep =>
         LET expected == PrintStatement(BoldExpression(extractText(Node.children[1])))
         IN IF Thrown(expected)
            THEN status' = "error"
            ELSE /\ status' = "transform"
                 /\ functions' = WithBody(pushAt(CurrentBody, currentBlock.path, expected))]_vars


(***************************************************************************)
(* C22.  The directory an external call is resolved against.               *)
(***************************************************************************)
\* the programs of this run that hold the block being executed, in the function
\* of the top frame
ProgramsHolding(statements) ==
    {ref \in {EntryProgram} \cup DOMAIN externalProgramCache :
        /\ callStack # <<>>
        /\ currentFrame(callStack).functionName \in DOMAIN Deref(ref).functions
        /\ Contains(Deref(ref).functions[currentFrame(callStack).functionName].body,
                    statements)}

\* the directory the run was given for the entry program, the file's own directory
\* for a loaded program
DirectoryOf(ref) ==
    IF ref = EntryProgram THEN (IF baseDir # <<>> THEN baseDir ELSE Cwd)
    ELSE SubSeq(ref, 1, Len(ref) - 1)

C22_ResolveStep ==
    ExternalCall =>
        \E ref \in ProgramsHolding(Top.statements) :
            LET path == normalize(DirectoryOf(ref) \o Statement.externalFile, <<>>)
            IN /\ ProgramsHolding(Top.statements) = {ref}
               /\ path \notin DOMAIN externalProgramCache
                     => fileReads' = Append(fileReads, path)
               /\ path \in DOMAIN externalProgramCache => fileReads' = fileReads
               /\ path \notin FilePaths
                     => status' = "error" /\ error' = Err("ENOENT", "", path)
               /\ status' = "running"
                     => /\ result'.program = path
                        /\ result'.func = Files[path].functions[Statement.functionName]

IsFunctionHeading(k) == mdast[k].type = "heading" /\ mdast[k].depth = 1
HeadingName(k) == Join(extractText(mdast[k]))

\* the last level-1 heading named n among the nodes already transformed
LastHeading(n) ==
    CHOOSE h \in 1..(pos - 1) :
        /\ IsFunctionHeading(h) /\ HeadingName(h) = n
        /\ \A j \in (h + 1)..(pos - 1) : ~(IsFunctionHeading(j) /\ HeadingName(j) = n)

\* the node after the nodes that follow heading h: the next level-1 heading, or pos
SectionEnd(h) ==
    IF \E e \in (h + 1)..(pos - 1) : IsFunctionHeading(e)
    THEN CHOOSE e \in (h + 1)..(pos - 1) :
            IsFunctionHeading(e) /\ \A j \in (h + 1)..(e - 1) : ~IsFunctionHeading(j)
    ELSE pos

\* the parameter names listed by the nodes k..(e - 1)
RECURSIVE ListedParameters(_, _)
ListedParameters(k, e) ==
    IF k >= e THEN <<>>
    ELSE (IF mdast[k].type = "list" /\ ~mdast[k].ordered
          THEN textOfEach(mdast[k].children) ELSE <<>>) \o ListedParameters(k + 1, e)

\* the nodes among k..(e - 1) that make a statement
StatementNodes(k, e) ==
    {j \in k..(e - 1) :
        \/ mdast[j].type = "thematicBreak"
        \/ mdast[j].type = "paragraph" /\ parseParagraph(mdast[j]) # NoStatement
        \/ /\ mdast[j].type = "heading" /\ mdast[j].depth = 2
           /\ \E c \in 1..Len(mdast[j].children) :
                 /\ mdast[j].children[c].type = "emphasis"
                 /\ extractText(mdast[j].children[c]) # <<>>}

\* the statements of a body, those inside conditionals included
RECURSIVE StatementCount(_)
StatementCount(body) ==
    IF body = <<>> THEN 0
    ELSE 1 + (IF Head(body).type = "ConditionalBlock" THEN StatementCount(Head(body).body)
              ELSE 0)
           + StatementCount(Tail(body))

FunctionHeadingStep == Transforming /\ Node.type = "heading" /\ Node.depth = 1

C23_HeadingStep ==
    FunctionHeadingStep =>
        /\ status' = status /\ error' = error
        /\ DOMAIN functions' = DOMAIN functions \cup {HeadingName(pos)}
        /\ functions'[HeadingName(pos)] = FunctionDeclaration(HeadingName(pos), <<>>, <<>>)
        /\ \A n \in DOMAIN functions : n # HeadingName(pos) => functions'[n] = functions[n]

C23_Declared ==
    status = "transform" =>
        /\ DOMAIN functions = {HeadingName(h) : h \in {k \in 1..(pos - 1) : IsFunctionHeading(k)}}
        /\ \A n \in DOMAIN functions :
              LET h == LastHeading(n)
              IN /\ functions[n].name = n
                 /\ functions[n].parameters = ListedParameters(h + 1, SectionEnd(h))
                 /\ StatementCount(functions[n].body)
                       = Cardinality(StatementNodes(h + 1, SectionEnd(h)))

\* C23: after any sequence of top-level nodes the Program maps each function name
\* to the declaration started by the last level-1 heading with that text: its
\* parameters and statements are those of the nodes after that heading only, and
\* the heading that redeclares a name raises no error.
C23_LastDeclarationWins ==
    /\ [][C23_HeadingStep]_vars
    /\ []C23_Declared

\* `# m`, a parameter list, a print, `# m` again: m has no parameter and no statement
C23_Witness ==
    /\ status = "transform" /\ pos = 5 /\ Len(mdast) = 4
    /\ IsFunctionHeading(1) /\ HeadingName(1) = "m"
    /\ mdast[2].type = "list"
    /\ mdast[3].type = "paragraph"
    /\ IsFunctionHeading(4) /\ HeadingName(4) = "m"
    /\ functions = [n \in {"m"} |-> FunctionDeclaration("m", <<>>, <<>>)]


(***************************************************************************)
(* C24.  The asynchronous-input marker.                                    *)
(***************************************************************************)
LoopReceives == status = "running" /\ hostStack # <<>> /\ Top.k = "interpret"

C24_InputStep ==
    (mode = "async" /\ inputsExecuted' # inputsExecuted) =>
        /\ AtStatementOfType("InputStatement")
        /\ hostStack' \in {hostStack, Advanced}
        /\ result' = NoResult

\* C24: in interactive mode the top-level loop never receives a result tagged with
\* the asynchronous-input marker: what block, statement, call and conditional
\* execution return is null or a tail-call descriptor, so the loop's continuation
\* branch is never taken, and every Input statement is awaited where it stands,
\* inside its block.
C24_MarkerNeverProduced ==
    /\ [](mode = "async" => result.type \in {"none", "null", "TAIL_CALL"})
    /\ [](mode = "async" /\ LoopReceives => result.type \in {"null", "TAIL_CALL"})
    /\ [](mode = "async" /\ awaiting =>
             /\ BlockExecuting
             /\ Top.i <= Len(Top.statements)
             /\ Statement.type = "InputStatement")
    /\ [][C24_InputStep]_vars

\* an interactive run of echo: the first Input was awaited inside echo's block and
\* delivered, and the loop now holds the tail call the block returned
C24_Witness ==
    /\ mode = "async" /\ inputReader
    /\ entryPoint = "echo"
    /\ LoopReceives
    /\ readerCalls = 1 /\ inputsExecuted = 1
    /\ output = <<Str(<<"a">>)>>
    /\ result.type = "TAIL_CALL" /\ result.func.name = "echo"

====
